---- MODULE Spec2Model ----
(***************************************************************************)
(* pycurves: the scrolling curve program (src/trunk/dynamic.py) and the    *)
(* fixed-point curve program (src/run.py).                                 *)
(*                                                                         *)
(* Numbers.  Every number the programs compute with is a Python float, an  *)
(* IEEE-754 binary64 value.  A float is modelled as a record               *)
(*     [sg |-> 1 or -1, m |-> significand, e |-> exponent]                 *)
(* of value sg * m * 2^e, with m = 0 (and sg = 1, e = 0) for zero and      *)
(* 2^52 <= m < 2^53 otherwise.  Significands and the intermediate results  *)
(* of the operations are wider than the model checker's integers, so they  *)
(* are little-endian sequences of limbs in base 2^15 with no leading zero  *)
(* limb (<<>> is zero).  Every operation rounds to nearest, ties to even,  *)
(* as the hardware does.  Overflow, subnormals, infinities and the sign of *)
(* zero are outside the range of the values modelled here.                 *)
(***************************************************************************)
EXTENDS Integers, Sequences, FiniteSets, TLC

LimbBase == 2^15

MantBits == 53

Max2(a, b) == IF a >= b THEN a ELSE b

Min2(a, b) == IF a <= b THEN a ELSE b

\* ---------------------------------------------------------------- limbs

BLimb(a, i) == IF i >= 1 /\ i <= Len(a) THEN a[i] ELSE 0

\* the index of the highest limb of a that is not zero, 0 if there is none
BTop(a) ==
    IF \A i \in 1..Len(a) : a[i] = 0 THEN 0
    ELSE CHOOSE i \in 1..Len(a) : a[i] # 0 /\ \A j \in (i + 1)..Len(a) : a[j] = 0

BTrim(a) == SubSeq(a, 1, BTop(a))

\* the limbs 1..n given as a function, as a sequence with no leading zero limb
BLimbs(f, n) == BTrim(SubSeq(f, 1, n))

\* the limbs of n, 0 <= n < 2^31
BFromInt(n) == BLimbs([i \in 1..3 |-> (n \div (LimbBase^(i - 1))) % LimbBase], 3)

\* the addition of a and b carries into limb i
BCarry(a, b, i) ==
    \E j \in 1..(i - 1) :
        /\ BLimb(a, j) + BLimb(b, j) >= LimbBase
        /\ \A k \in (j + 1)..(i - 1) : BLimb(a, k) + BLimb(b, k) = LimbBase - 1

BAdd(a, b) ==
    BLimbs([i \in 1..(Max2(Len(a), Len(b)) + 1) |->
              (BLimb(a, i) + BLimb(b, i) + (IF BCarry(a, b, i) THEN 1 ELSE 0)) % LimbBase], (Max2(Len(a), Len(b)) + 1))

\* the subtraction of b from a borrows from limb i
BBorrow(a, b, i) ==
    \E j \in 1..(i - 1) :
        /\ BLimb(a, j) < BLimb(b, j)
        /\ \A k \in (j + 1)..(i - 1) : BLimb(a, k) = BLimb(b, k)

\* a - b for a >= b
BSub(a, b) ==
    BLimbs([i \in 1..Len(a) |->
              (LimbBase + a[i] - BLimb(b, i) - (IF BBorrow(a, b, i) THEN 1 ELSE 0)) % LimbBase], Len(a))

\* -1, 0, 1 as a is below, equal to, above b
BCmp(a, b) ==
    IF \A i \in 1..Max2(Len(a), Len(b)) : BLimb(a, i) = BLimb(b, i) THEN 0
    ELSE IF \E i \in 1..Len(a) :
                /\ a[i] > BLimb(b, i)
                /\ \A j \in (i + 1)..Max2(Len(a), Len(b)) : BLimb(a, j) = BLimb(b, j)
         THEN 1
         ELSE -1

\* a with n zero limbs below it
BShlLimbs(a, n) == BLimbs([i \in 1..(Len(a) + n) |-> BLimb(a, i - n)], (Len(a) + n))

\* a * k for 0 <= k < LimbBase: the low halves of the limb products plus the
\* high halves one limb up
BMulSmall(a, k) ==
    BAdd(BLimbs([i \in 1..Len(a) |-> (a[i] * k) % LimbBase], Len(a)),
         BLimbs([i \in 1..(Len(a) + 1) |-> (BLimb(a, i - 1) * k) \div LimbBase], Len(a) + 1))

\* a * b by rows: st is <<the row of b to add next, the sum of the rows before it>>
RECURSIVE BMulRows(_, _, _)
BMulRows(a, b, st) ==
    IF st[1] > Len(b) THEN st[2]
    ELSE BMulRows(a, b, <<st[1] + 1,
                           BAdd(st[2], BShlLimbs(BMulSmall(a, b[st[1]]), st[1] - 1))>>)

BMul(a, b) == BMulRows(a, b, <<1, <<>>>>)

\* a * 2^k
BShl(a, k) ==
    BLimbs([i \in 1..(Len(a) + (k \div 15) + 1) |->
              ((BLimb(a, i - (k \div 15)) * 2^(k % 15)) % LimbBase)
              + ((BLimb(a, i - (k \div 15) - 1) * 2^(k % 15)) \div LimbBase)], (Len(a) + (k \div 15) + 1))

\* floor(a / 2^k)
BShr(a, k) ==
    BLimbs([i \in 1..(Len(a) - (k \div 15)) |->
              (a[i + (k \div 15)] \div (2^(k % 15)))
              + ((BLimb(a, i + (k \div 15) + 1) % (2^(k % 15))) * 2^(15 - (k % 15)))], (Len(a) - (k \div 15)))

\* the low k bits of a are all zero
BLowZero(a, k) ==
    /\ \A i \in 1..Min2(k \div 15, Len(a)) : a[i] = 0
    /\ BLimb(a, (k \div 15) + 1) % (2^(k % 15)) = 0

\* bit i of a (bit 0 is the lowest)
BBit(a, i) == (BLimb(a, (i \div 15) + 1) \div (2^(i % 15))) % 2

\* the number of bits of n, 0 <= n < LimbBase
IntBitLen(n) == CHOOSE k \in 0..15 : n < 2^k /\ (k = 0 \/ n >= 2^(k - 1))

BBitLen(a) == IF a = <<>> THEN 0 ELSE (Len(a) - 1) * 15 + IntBitLen(a[Len(a)])

\* floor(r / b) for b with a full top limb (b[Len(b)] >= 2^14) and r < b * LimbBase:
\* the estimate q0 from the top limbs is at most two too large
BDigitFix(r, b, q0) ==
    IF BCmp(BMulSmall(b, q0), r) <= 0 THEN q0
    ELSE IF BCmp(BMulSmall(b, q0 - 1), r) <= 0 THEN q0 - 1
    ELSE q0 - 2

BDigit(r, b) ==
    BDigitFix(r, b, Min2(LimbBase - 1,
        (BLimb(r, Len(b) + 1) * LimbBase + BLimb(r, Len(b))) \div b[Len(b)]))

BDivSub(b, i, q, r, d) == <<i, <<d>> \o q, BSub(r, BMulSmall(b, d))>>

BDivTake(b, i, q, r) == BDivSub(b, i, q, r, BDigit(r, b))

\* long division, one limb of a at a time: st is <<the limbs of a still to
\* bring down, the quotient so far, the remainder so far>>
RECURSIVE BDivStep(_, _, _)
BDivStep(a, b, st) ==
    IF st[1] = 0 THEN <<BTrim(st[2]), st[3]>>
    ELSE BDivStep(a, b, BDivTake(b, st[1] - 1, st[2], BTrim(<<a[st[1]]>> \o st[3])))

BDivUnshift(qr, k) == <<qr[1], BShr(qr[2], k)>>

\* a and b shifted to give b a full top limb; fewer limbs in a than in b leave
\* a as the remainder
BDivShifted(a, b, k) ==
    IF Len(a) < Len(b) THEN BDivUnshift(<<<<>>, a>>, k)
    ELSE BDivUnshift(BDivStep(a, b, <<Len(a) - Len(b) + 1, <<>>,
                                      SubSeq(a, Len(a) - Len(b) + 2, Len(a))>>), k)

BDivBy(a, b, k) == BDivShifted(BShl(a, k), BShl(b, k), k)

\* <<floor(a / b), a mod b>> for b > 0
BDivMod(a, b) == BDivBy(a, b, 15 - IntBitLen(b[Len(b)]))

\* ---------------------------------------------------------------- floats

FZero == [sg |-> 1, m |-> <<>>, e |-> 0]

FIsZero(x) == x.m = <<>>

FRoundCarry(sg, q, e) ==
    IF BBitLen(q) > MantBits
    THEN [sg |-> sg, m |-> BShr(q, 1), e |-> e + 1]
    ELSE [sg |-> sg, m |-> q, e |-> e]

\* q is the value cut to MantBits bits; half is the first bit cut off and rest
\* says that a lower one is set: round to nearest, a tie to the even significand
FRoundCut(sg, q, e, half, rest) ==
    FRoundCarry(sg,
                IF half /\ (rest \/ BBit(q, 0) = 1) THEN BAdd(q, <<1>>) ELSE q,
                e)

FRoundLen(sg, m, e, sticky, L) ==
    IF L <= MantBits
    THEN [sg |-> sg, m |-> BShl(m, MantBits - L), e |-> e - (MantBits - L)]
    ELSE FRoundCut(sg, BShr(m, L - MantBits), e + (L - MantBits),
                   BBit(m, L - MantBits - 1) = 1,
                   sticky \/ ~BLowZero(m, L - MantBits - 1))

\* the float nearest to sg * (m + d) * 2^e, where 0 <= d < 1 and d > 0 iff sticky
\* (callers pass sticky only with m of more than MantBits + 1 bits)
FRound(sg, m, e, sticky) ==
    IF m = <<>> THEN FZero ELSE FRoundLen(sg, m, e, sticky, BBitLen(m))

\* the float of the integer n
FInt(n) == FRound(IF n < 0 THEN -1 ELSE 1, BFromInt(IF n < 0 THEN -n ELSE n), 0, FALSE)

FNeg(x) == IF FIsZero(x) THEN x ELSE [x EXCEPT !.sg = -x.sg]

FAbs(x) == [x EXCEPT !.sg = 1]

\* -1, 0, 1 as |x| is below, equal to, above |y|
FCmpAbs(x, y) ==
    IF FIsZero(x) THEN (IF FIsZero(y) THEN 0 ELSE -1)
    ELSE IF FIsZero(y) THEN 1
    ELSE IF x.e > y.e THEN 1
    ELSE IF x.e < y.e THEN -1
    ELSE BCmp(x.m, y.m)

FCmp(x, y) ==
    IF FIsZero(x) /\ FIsZero(y) THEN 0
    ELSE IF FIsZero(x) THEN -y.sg
    ELSE IF FIsZero(y) THEN x.sg
    ELSE IF x.sg # y.sg THEN x.sg
    ELSE x.sg * FCmpAbs(x, y)

FLt(x, y) == FCmp(x, y) < 0

FLe(x, y) == FCmp(x, y) <= 0

FGt(x, y) == FCmp(x, y) > 0

FGe(x, y) == FCmp(x, y) >= 0

FEq(x, y) == FCmp(x, y) = 0

\* sx * mx * 2^e + sy * my * 2^e, where c compares mx with my
FAddAligned(sx, mx, sy, my, e, c) ==
    FRound(IF sx = sy \/ c >= 0 THEN sx ELSE sy,
           IF sx = sy THEN BAdd(mx, my)
           ELSE IF c >= 0 THEN BSub(mx, my) ELSE BSub(my, mx),
           e, FALSE)

FAddAt(x, y, mx, my, e) == FAddAligned(x.sg, mx, y.sg, my, e, BCmp(mx, my))

\* x + y
FAdd(x, y) ==
    IF FIsZero(x) THEN y
    ELSE IF FIsZero(y) THEN x
    ELSE IF x.e - y.e > 2 * MantBits THEN x
    ELSE IF y.e - x.e > 2 * MantBits THEN y
    ELSE FAddAt(x, y, BShl(x.m, x.e - Min2(x.e, y.e)), BShl(y.m, y.e - Min2(x.e, y.e)),
                Min2(x.e, y.e))

FSub(x, y) == FAdd(x, FNeg(y))

FMul(x, y) ==
    IF FIsZero(x) \/ FIsZero(y) THEN FZero
    ELSE FRound(x.sg * y.sg, BMul(x.m, y.m), x.e + y.e, FALSE)

FDivRound(sg, qr, e) == FRound(sg, qr[1], e, qr[2] # <<>>)

\* x / y for y # 0
FDiv(x, y) ==
    IF FIsZero(x) THEN FZero
    ELSE FDivRound(x.sg * y.sg, BDivMod(BShl(x.m, MantBits + 3), y.m),
                   x.e - y.e - (MantBits + 3))

\* the float written n/d in decimal (a correctly rounded literal)
FLit(n, d) == FDiv(FInt(n), FInt(d))

FOne == FInt(1)

FTwo == FInt(2)

FHalf == FLit(1, 2)

FFloorCut(x, q) ==
    FRound(x.sg,
           IF x.sg > 0 \/ BLowZero(x.m, -x.e) THEN q ELSE BAdd(q, <<1>>),
           0, FALSE)

\* math.floor
FFloor(x) ==
    IF FIsZero(x) \/ x.e >= 0 THEN x
    ELSE IF -x.e >= MantBits THEN (IF x.sg > 0 THEN FZero ELSE FNeg(FOne))
    ELSE FFloorCut(x, BShr(x.m, -x.e))

FFmodRound(sg, qr, e) == FRound(sg, qr[2], e, FALSE)

\* C's fmod: x - n*y for the integer n that leaves a result of x's sign and
\* of magnitude below |y|; the result is exact
FFmod(x, y) ==
    IF FIsZero(x) \/ FCmpAbs(x, y) < 0 THEN x
    ELSE FFmodRound(x.sg,
                    BDivMod(BShl(x.m, x.e - Min2(x.e, y.e)), BShl(y.m, y.e - Min2(x.e, y.e))),
                    Min2(x.e, y.e))

\* float % (CPython's float_rem), for y # 0: mod is fmod(x, y)
PyModSign(y, mod) ==
    IF ~FIsZero(mod) /\ (y.sg < 0) # (mod.sg < 0) THEN FAdd(mod, y) ELSE mod

PyMod(x, y) == PyModSign(y, FFmod(x, y))

\* float // (CPython's float_floor_div), for y # 0
PyFloorDivRound(div, floordiv) ==
    IF FGt(FSub(div, floordiv), FHalf) THEN FAdd(floordiv, FOne) ELSE floordiv

PyFloorDivFloor(div) == IF FIsZero(div) THEN FZero ELSE PyFloorDivRound(div, FFloor(div))

PyFloorDivSign(y, mod, div) ==
    PyFloorDivFloor(IF ~FIsZero(mod) /\ (y.sg < 0) # (mod.sg < 0) THEN FSub(div, FOne) ELSE div)

PyFloorDivMod(x, y, mod) == PyFloorDivSign(y, mod, FDiv(FSub(x, mod), y))

PyFloorDiv(x, y) == PyFloorDivMod(x, y, FFmod(x, y))

\* max(a, b) and min(a, b) of the builtins: the first argument unless the second beats it
PyMax(a, b) == IF FGt(b, a) THEN b ELSE a

PyMin(a, b) == IF FLt(b, a) THEN b ELSE a

\* ---------------------------------------------------------------- SliderBox

SLIDER_DEFAULT_WIDTH == 40

SLIDER_DEFAULT_HEIGHT == 100

\* Circle.__init__
Circle(x, y, radius) ==
    [x |-> x, y |-> y, radius |-> radius, draw_style |-> "NORMAL_DRAW_STYLE"]

\* a division by zero that raised nothing: the call completes with a NaN fraction
CompleteWithNaN(self) == [self EXCEPT !.has_fraction = TRUE, !.fraction = "nan"]

\* the exception a float division by zero raises, leaving the object as it was
RaiseZeroDivision(self) == [self EXCEPT !.exc = "ZeroDivisionError"]

get_y_position(self, fraction) == FAdd(self.y0_track, FMul(fraction, self.track_height))

update_slider_position(self) ==
    [self EXCEPT !.circle_element.y =
        FAdd(get_y_position(self, self.fraction), self.circle_y_offset)]

get_value(self) ==
    FAdd(self.min_value, FMul(self.fraction, FSub(self.max_value, self.min_value)))

\* SliderBox.set_value_fraction, lines 371 to 373: floor_fraction is
\* step_fraction * fraction_divisor
round_half_up(step_fraction, floor_fraction, fraction_modulo) ==
    IF FGe(fraction_modulo, FDiv(step_fraction, FTwo))
    THEN FAdd(floor_fraction, step_fraction)
    ELSE floor_fraction

quantize(step_fraction, fraction) ==
    round_half_up(step_fraction,
                  FMul(step_fraction, PyFloorDiv(fraction, step_fraction)),
                  PyMod(fraction, step_fraction))

\* SliderBox.set_value_fraction, up to the callback: the fraction it stores
quantized_fraction(self, fraction) ==
    quantize(FDiv(self.step_value, FSub(self.max_value, self.min_value)), fraction)

store_fraction(self, fraction) ==
    update_slider_position([self EXCEPT !.fraction = fraction, !.has_fraction = TRUE])

\* SliderBox.set_value_fraction on the object (the callback's effect on the
\* module's globals is part of the action that calls this)
set_value_fraction(self, fraction) ==
    IF FEq(self.max_value, self.min_value) THEN RaiseZeroDivision(self)
    ELSE IF FIsZero(self.step_value) THEN RaiseZeroDivision(self)
    ELSE store_fraction(self, quantized_fraction(self, fraction))

\* the fraction set_value hands to set_value_fraction
value_fraction(self, value) ==
    FDiv(FSub(PyMax(self.min_value, PyMin(value, self.max_value)), self.min_value),
         FSub(self.max_value, self.min_value))

set_value(self, value) ==
    IF FEq(self.max_value, self.min_value) THEN RaiseZeroDivision(self)
    ELSE set_value_fraction(self, value_fraction(self, value))

\* the fraction event_drag_child hands to set_value_fraction
drag_fraction(self, y) ==
    FDiv(FSub(IF FLt(y, FAdd(self.y0_track, self.circle_y_offset))
              THEN FAdd(self.y0_track, self.circle_y_offset)
              ELSE IF FGt(y, FAdd(self.y1_track, self.circle_y_offset))
              THEN FAdd(self.y1_track, self.circle_y_offset)
              ELSE y,
              FAdd(self.y0_track, self.circle_y_offset)),
         FSub(FAdd(self.y1_track, self.circle_y_offset),
              FAdd(self.y0_track, self.circle_y_offset)))

event_drag_child(self, x, y) ==
    IF FEq(self.y1_track, self.y0_track) THEN RaiseZeroDivision(self)
    ELSE set_value_fraction(self, drag_fraction(self, y))

\* the object with its geometry, before set_value(value)
SliderBoxTrack(self) ==
    [self EXCEPT !.x_track = FAdd(self.x, FDiv(self.width, FTwo)),
                 !.y1_track = FSub(FAdd(self.y, self.height), self.y_margin),
                 !.y0_track = FAdd(self.y, self.y_margin)]

SliderBoxHandle(self) ==
    [self EXCEPT !.track_height = FSub(self.y1_track, self.y0_track),
                 !.circle_element =
                     Circle(FAdd(self.x_track, self.circle_y_offset), self.y0_track, FInt(4))]

\* SliderBox.__init__: the fields, the handle Circle, then set_value(value)
SliderBox(x, y, width, height, min_value, max_value, step_value, value, curve_types, callback) ==
    set_value(
        SliderBoxHandle(SliderBoxTrack(
            [x |-> x, y |-> y, width |-> width, height |-> height,
             min_value |-> min_value, max_value |-> max_value,
             step_value |-> step_value,
             curve_types |-> curve_types, callback |-> callback,
             y_margin |-> FInt(20), x_track |-> FZero,
             y1_track |-> FZero, y0_track |-> FZero,
             track_height |-> FZero,
             circle_y_offset |-> FZero,
             circle_element |-> Circle(FZero, FZero, FInt(4)),
             has_fraction |-> FALSE, fraction |-> FZero,
             exc |-> "none"])),
        value)

\* ---------------------------------------------------------------- the scroll clock

CURVE_DISPLAY_SECTIONS == 6

CURVE_MARGIN_SECTIONS == 2

CURVE_SECTIONS == CURVE_MARGIN_SECTIONS + CURVE_DISPLAY_SECTIONS + CURVE_MARGIN_SECTIONS

CURVE_SECTION_SUBDIVISIONS == 20

CURVE_POINTS == CURVE_SECTIONS + 1

CURVE_HEIGHT == 40

CURVE_Y_MARGIN == 80

CURVE_Y0 == CURVE_Y_MARGIN

CURVE_Y1 == CURVE_Y0 + CURVE_HEIGHT

\* random.random(): the generator's state is a position in a cycle of values of
\* [0, 1); a call returns the value at the position and moves to the next
RandomValues == <<FZero, FHalf>>

random_next(state) == (state + 1) % Len(RandomValues)

\* Vector2D(0, y) with the y add_curve_point draws, made as the id-th point
new_curve_point(id, state) ==
    [id |-> id, x |-> FZero,
     y |-> FAdd(FInt(CURVE_Y0), FMul(RandomValues[state + 1], FInt(CURVE_HEIGHT)))]

\* add_curve_point without its two length checks
add_curve_point_unchecked(points, direction, point) ==
    IF direction > 0 THEN Append(points, point)
    ELSE IF direction < 0 THEN <<point>> \o points
    ELSE points

\* add_curve_point with every point put at the tail, whatever the direction
add_curve_point_at_tail(points, direction, point) ==
    IF direction = 0 THEN points
    ELSE IF Len(points) + 1 > CURVE_POINTS THEN Tail(Append(points, point))
    ELSE Append(points, point)

\* add_curve_point(direction) on the list curve_points, point being the new one
add_curve_point(points, direction, point) ==
    IF direction > 0
    THEN (IF Len(points) + 1 > CURVE_POINTS THEN Tail(Append(points, point))
          ELSE Append(points, point))
    ELSE IF direction < 0
    THEN (IF Len(points) + 1 > CURVE_POINTS THEN SubSeq(<<point>> \o points, 1, Len(points))
          ELSE <<point>> \o points)
    ELSE points

\* create_curve with one call of add_curve_point() less
RECURSIVE create_curve_short(_)
create_curve_short(st) ==
    IF Len(st[1]) >= CURVE_POINTS - 1 THEN st
    ELSE create_curve_short(<<add_curve_point(st[1], 1, new_curve_point(Len(st[1]) + 1, st[2])),
                              random_next(st[2])>>)

\* create_curve: CURVE_POINTS calls of add_curve_point(); st is <<the points so
\* far, the generator's state>>
RECURSIVE create_curve(_)
create_curve(st) ==
    IF Len(st[1]) >= CURVE_POINTS THEN st
    ELSE create_curve(<<add_curve_point(st[1], 1, new_curve_point(Len(st[1]) + 1, st[2])),
                        random_next(st[2])>>)

\* on_randomise_button_press: a new y for every point, in list order
randomise(points, state) ==
    [i \in 1..Len(points) |->
        [points[i] EXCEPT !.y = new_curve_point(0, (state + i - 1) % Len(RandomValues)).y]]

\* set_curve_scroll_seconds: the value it gives section_ms
section_seconds(seconds) ==
    FDiv(seconds, FInt(CURVE_SECTION_SUBDIVISIONS * CURVE_DISPLAY_SECTIONS))

\* tick: which branch a value of current_step takes
tick_forward_only(step) ==
    IF FGe(step, FInt(CURVE_SECTION_SUBDIVISIONS)) THEN "append" ELSE "none"

\* tick with > in place of >= in its first test
tick_crossing_late(step) ==
    IF FGt(step, FInt(CURVE_SECTION_SUBDIVISIONS)) THEN "append"
    ELSE IF FLt(step, FZero) THEN "prepend"
    ELSE "none"

tick_crossing(step) ==
    IF FGe(step, FInt(CURVE_SECTION_SUBDIVISIONS)) THEN "append"
    ELSE IF FLt(step, FZero) THEN "prepend"
    ELSE "none"

\* ---------------------------------------------------------------- state

VARIABLES
    slider,       \* a SliderBox on its own: the object SliderBox(...) builds
    slider_op,    \* the last call made on it: its name, argument and the fraction
                  \* it handed to set_value_fraction
    curve_points,             \* the list curve_points: points [id, x, y], id the
                              \* number of the add_curve_point call that made it
    curve_scroll_seconds,
    curve_scroll_direction,
    section_ms,
    section_dt,
    current_step,
    random_state,             \* the state of the generator behind random.random()
    points_made,              \* the number of add_curve_point calls so far
    scroll_op,                \* the last call on the scroll clock: its name, its
                              \* argument, what it did to the list, reversal as
                              \* it was before the call, and for a tick the value
                              \* of math.floor(section_dt / section_ms) and the
                              \* list as it was before the call
    reversal,                 \* "appended" from a tick that appended until a tick
                              \* moves the clock again; "reversed" once the
                              \* direction has been set negative meanwhile
    window_width,             \* the globals on_resize sets
    window_height,
    window_display_width,
    window_display_x0,
    window_display_x1,
    curve_section_width,
    gl_lines,                 \* the lines the last draw_line call handed to OpenGL,
                              \* each <<first vertex, second vertex>>
    draw_op,                  \* the last draw_line call: its arguments and the
                              \* window it clipped against; or the last
                              \* draw_lines call: the indexes of curve_points
                              \* it read and whether one of them raised
                              \* IndexError
    curve_sliders,            \* run.py: the list of control points
    hermite_tension,          \* run.py: tension_slider_box.get_value() and
    hermite_bias,             \* bias_slider_box.get_value() as draw_lines read them
    lines_at,                 \* run.py draw_lines: <<i, j>> of the next subdivision
    lines_p0,                 \* run.py draw_lines: its local p0
    lines_out,                \* the last line draw_lines handed to draw_line
    hermite_op,               \* a call of hermite_interpolation: its arguments,
                              \* and once made its result and the four point
                              \* arguments as the call left them
    objects,                  \* the list objects, in the order of registration
    selected_ui_element,      \* a position in objects, or None
    curve_type,
    tick_ms,
    tick_ps,
    tick_schedule,            \* the intervals pyglet's clock has tick scheduled at
    ui_op,                    \* the last mouse event: its handler, button and
                              \* point, selected_ui_element as it was before,
                              \* whether its point is within the element selected
                              \* after it, and whether it changed any widget or
                              \* global
    called                    \* the callbacks the last mouse event called, in
                              \* the order of the calls

sliderVars == <<slider, slider_op>>

scrollVars == <<curve_points, curve_scroll_seconds, curve_scroll_direction, section_ms,
                section_dt, current_step, random_state, points_made, scroll_op, reversal>>

clipVars == <<window_width, window_height, window_display_width, window_display_x0,
              window_display_x1, curve_section_width, gl_lines, draw_op>>

hermiteVars == <<curve_sliders, hermite_tension, hermite_bias, lines_at, lines_p0,
                 lines_out, hermite_op>>

uiVars == <<objects, selected_ui_element, curve_type, tick_ms, tick_ps, tick_schedule,
            ui_op, called>>

vars == <<sliderVars, scrollVars, clipVars, hermiteVars, uiVars>>

\* the parts of the state a specification leaves out
SliderIdle == slider = <<>> /\ slider_op = <<>>

ScrollIdle ==
    /\ curve_points = <<>> /\ curve_scroll_seconds = FZero /\ curve_scroll_direction = FZero
    /\ section_ms = FZero /\ section_dt = FZero /\ current_step = FZero
    /\ random_state = 0 /\ points_made = 0 /\ scroll_op = <<>> /\ reversal = "none"

ClipIdle ==
    /\ window_width = 0 /\ window_height = 0 /\ window_display_width = FZero
    /\ window_display_x0 = FZero /\ window_display_x1 = FZero
    /\ curve_section_width = FZero /\ gl_lines = <<>> /\ draw_op = <<>>

HermiteIdle ==
    /\ curve_sliders = <<>> /\ hermite_tension = FZero /\ hermite_bias = FZero
    /\ lines_at = <<>> /\ lines_p0 = <<>> /\ lines_out = <<>> /\ hermite_op = <<>>

None == 0

UIIdle ==
    /\ objects = <<>> /\ selected_ui_element = None /\ curve_type = 0
    /\ tick_ms = FZero /\ tick_ps = 0 /\ tick_schedule = <<>> /\ ui_op = <<>>
    /\ called = <<>>

\* ------------------------------------------------- a SliderBox on its own

\* <<min_value, max_value, step_value>> as the literals numerator/denominator:
\* the four sliders run() builds (Tension and Bias, Speed, Direction, Updates),
\* one whose step does not divide its range, and two with max_value = min_value
TensionConfig == <<-1, 1, 1, 1, 1, 10>>

SliderConfigs ==
    { TensionConfig,
      <<1, 1, 5, 1, 25, 100>>,
      <<-1, 1, 1, 1, 1, 1>>,
      <<0, 1, 60, 1, 5, 1>>,
      <<0, 1, 8, 1, 3, 1>>,
      <<1, 1, 1, 1, 1, 10>>,
      <<0, 1, 0, 1, 5, 1>> }

\* the arguments of set_value, as literals <<numerator, denominator>>
SliderValues == { <<5, 100>>, <<1, 10>>, <<0, 1>>, <<3, 1>>, <<8, 1>>, <<-5, 1>> }

\* the pointer rows a handle is dragged to (the track of the slider at y = 5
\* runs from row 25 to row 85)
SliderDragRows == { 0, 25, 47, 63, 64, 85, 110 }

NewSlider(c, v) ==
    SliderBox(FInt(5), FInt(5), FInt(SLIDER_DEFAULT_WIDTH), FInt(SLIDER_DEFAULT_HEIGHT),
              FLit(c[1], c[2]), FLit(c[3], c[4]), FLit(c[5], c[6]),
              FLit(v[1], v[2]), <<>>, "None")

InitSlider ==
    \E c \in SliderConfigs, v \in { <<0, 1>>, <<3, 1>> } :
        /\ ScrollIdle /\ ClipIdle /\ HermiteIdle /\ UIIdle
        /\ slider = NewSlider(c, v)
        /\ slider_op = [name |-> "__init__", config |-> c, arg |-> FLit(v[1], v[2]),
                        fraction |-> IF c[1] * c[4] = c[3] * c[2] THEN FZero
                                     ELSE value_fraction(NewSlider(c, v), FLit(v[1], v[2]))]

\* slider.set_value(v)
SliderSetValue(v) ==
    /\ UNCHANGED <<uiVars, scrollVars, clipVars, hermiteVars>>
    /\ slider.exc = "none"
    /\ slider' = set_value(slider, FLit(v[1], v[2]))
    /\ slider_op' = [slider_op EXCEPT !.name = "set_value", !.arg = FLit(v[1], v[2]),
                         !.fraction = value_fraction(slider, FLit(v[1], v[2]))]

\* a drag of the handle to row y: Circle.event_drag hands it to the parent's
\* event_drag_child
SliderDragHandle(y) ==
    /\ UNCHANGED <<uiVars, scrollVars, clipVars, hermiteVars>>
    /\ slider.exc = "none"
    /\ slider' = event_drag_child(slider, FInt(3), FInt(y))
    /\ slider_op' = [slider_op EXCEPT !.name = "event_drag_child", !.arg = FInt(y),
                         !.fraction = drag_fraction(slider, FInt(y))]

\* slider.set_value_fraction(slider.fraction): the stored fraction quantized again
SliderRequantize ==
    /\ UNCHANGED <<uiVars, scrollVars, clipVars, hermiteVars>>
    /\ slider.exc = "none"
    /\ slider' = set_value_fraction(slider, slider.fraction)
    /\ slider_op' = [slider_op EXCEPT !.name = "set_value_fraction", !.arg = slider.fraction,
                         !.fraction = slider.fraction]

NextSlider ==
    \/ \E v \in SliderValues : SliderSetValue(v)
    \/ \E y \in SliderDragRows : SliderDragHandle(y)
    \/ SliderRequantize

SpecSlider == InitSlider /\ [][NextSlider]_vars

\* ------------------------------------------------- claims about a SliderBox

\* |a - b| is within the floating tolerance 1e-9
FloatTolerance == FLit(1, 1000000000)

FClose(a, b) == FLe(FAbs(FSub(a, b)), FloatTolerance)

\* the multiple of step_fraction nearest to fraction, the halfway case upwards
nearest_multiple(step_fraction, fraction) ==
    FMul(step_fraction, FFloor(FAdd(FDiv(fraction, step_fraction), FHalf)))

\* C3, as the specification states it: set_value_fraction(f) stores the multiple
\* of step/(max-min) nearest to f, halfway cases upwards; and on the slider with
\* min = -1, max = 1, step = 0.1, set_value(0.05) stores the fraction
\* set_value(0.1) stores and get_value() then returns 0.1
C3_AsStated ==
    /\ slider.has_fraction =>
           FClose(slider.fraction,
                  nearest_multiple(FDiv(slider.step_value,
                                        FSub(slider.max_value, slider.min_value)),
                                   slider_op.fraction))
    /\ (/\ slider_op.config = TensionConfig
        /\ slider_op.name = "set_value"
        /\ slider_op.arg = FLit(5, 100))
       => /\ slider.fraction = set_value(slider, FLit(1, 10)).fraction
          /\ FClose(get_value(slider), FLit(1, 10))

\* C4, as the specification states it: once set_value_fraction has stored q,
\* set_value_fraction(q) leaves the stored fraction and the handle where they are
C4_AsStated ==
    slider.has_fraction =>
        /\ set_value_fraction(slider, slider.fraction).fraction = slider.fraction
        /\ set_value_fraction(slider, slider.fraction).circle_element = slider.circle_element

\* C5, as the specification states it: with min < max and step > 0, whatever
\* was set or dragged, the fraction is in [0, 1] and get_value() in [min, max]
C5_AsStated ==
    (/\ slider.has_fraction
     /\ FLt(slider.min_value, slider.max_value)
     /\ FGt(slider.step_value, FZero))
    => /\ FGe(slider.fraction, FZero) /\ FLe(slider.fraction, FOne)
       /\ FGe(get_value(slider), slider.min_value)
       /\ FLe(get_value(slider), slider.max_value)

window_get_size == <<640, 480>>

\* the Speed and Direction sliders as run() builds them
curve_speed_slider_box ==
    SliderBox(FInt(window_get_size[1] - SLIDER_DEFAULT_WIDTH - 5), FInt(5),
              FInt(SLIDER_DEFAULT_WIDTH), FInt(SLIDER_DEFAULT_HEIGHT),
              FInt(1), FInt(5), FLit(25, 100), FInt(3), <<>>, "set_curve_scroll_seconds")

curve_direction_slider_box ==
    SliderBox(FInt(window_get_size[1] - SLIDER_DEFAULT_WIDTH - 5),
              FInt(5 + SLIDER_DEFAULT_HEIGHT + 25),
              FInt(SLIDER_DEFAULT_WIDTH), FInt(SLIDER_DEFAULT_HEIGHT),
              FInt(-1), FInt(1), FInt(1), FInt(1), <<>>, "set_curve_scroll_direction")

\* the rows the two handles are dragged to, and the values the callbacks then get
SpeedDragRows == { 25, 55 }

DirectionDragRows == { 150, 180, 210 }

ScrollSeconds ==
    { get_value(event_drag_child(curve_speed_slider_box, FInt(3), FInt(y))) : y \in SpeedDragRows }

ScrollDirections ==
    { get_value(event_drag_child(curve_direction_slider_box, FInt(3), FInt(y))) :
          y \in DirectionDragRows }

\* the seconds the clock hands to tick
TickSeconds == { FZero, FLit(1, 4), FInt(10) }

\* the calls of add_curve_point a behaviour makes at most
MaxPointsMade == 14

\* run(): the list and the scroll clock, the generator in state seed before
InitCurve(seed) ==
        /\ curve_points = create_curve(<<<<>>, seed>>)[1]
        /\ random_state = create_curve(<<<<>>, seed>>)[2]
        /\ points_made = CURVE_POINTS
        /\ curve_scroll_seconds = get_value(curve_speed_slider_box)
        /\ section_ms = section_seconds(get_value(curve_speed_slider_box))
        /\ curve_scroll_direction = get_value(curve_direction_slider_box)
        /\ section_dt = FZero
        /\ current_step = FZero
        /\ scroll_op = [name |-> "run", arg |-> FZero, mutation |-> "none", reversal |-> "none",
                        step |-> FZero, before |-> <<>>]
        /\ reversal = "none"

InitScroll ==
    \E seed \in 0..(Len(RandomValues) - 1) :
        SliderIdle /\ ClipIdle /\ HermiteIdle /\ UIIdle /\ InitCurve(seed)

\* tick(dt), once the branch it takes is known
TickBranch(dt, dt_sum, step, crossing) ==
    /\ crossing # "none" => points_made < MaxPointsMade
    /\ section_dt' = (IF crossing = "append" THEN FZero
                      ELSE IF crossing = "prepend"
                      THEN FMul(FInt(CURVE_SECTION_SUBDIVISIONS), section_ms)
                      ELSE dt_sum)
    /\ current_step' = (IF crossing = "append" THEN FZero
                        ELSE IF crossing = "prepend" THEN FInt(CURVE_SECTION_SUBDIVISIONS)
                        ELSE step)
    /\ curve_points' = (IF crossing = "none" THEN curve_points
                        ELSE add_curve_point(curve_points,
                                             IF crossing = "append" THEN 1 ELSE -1,
                                             new_curve_point(points_made + 1, random_state)))
    /\ random_state' = (IF crossing = "none" THEN random_state ELSE random_next(random_state))
    /\ points_made' = (IF crossing = "none" THEN points_made ELSE points_made + 1)
    /\ scroll_op' = [name |-> "tick", arg |-> dt, mutation |-> crossing, reversal |-> reversal,
                     step |-> step, before |-> curve_points]
    /\ reversal' = (IF crossing = "append" THEN "appended"
                    ELSE IF crossing = "none" /\ FIsZero(dt) THEN reversal
                    ELSE "none")

TickStep(dt, dt_sum, step) == TickBranch(dt, dt_sum, step, tick_crossing(step))

TickSum(dt, dt_sum) == TickStep(dt, dt_sum, FFloor(FDiv(dt_sum, section_ms)))

\* tick(dt)
Tick(dt) ==
    /\ UNCHANGED <<uiVars, sliderVars, clipVars, hermiteVars, curve_scroll_seconds, curve_scroll_direction, section_ms>>
    /\ TickSum(dt, FAdd(section_dt, FMul(dt, curve_scroll_direction)))

\* set_curve_scroll_direction(direction), the Direction slider's callback
set_curve_scroll_direction(direction) == curve_scroll_direction' = direction

SetCurveScrollDirection(direction) ==
    /\ set_curve_scroll_direction(direction)
    /\ scroll_op' = [name |-> "set_curve_scroll_direction", arg |-> direction,
                     mutation |-> "none", reversal |-> reversal,
                     step |-> FZero, before |-> <<>>]
    /\ reversal' = (IF reversal = "none" THEN "none"
                    ELSE IF FLt(direction, FZero) THEN "reversed"
                    ELSE "appended")
    /\ UNCHANGED <<uiVars, sliderVars, clipVars, hermiteVars, curve_points, curve_scroll_seconds, section_ms, section_dt,
                   current_step, random_state, points_made>>

\* set_curve_scroll_seconds(seconds), the Speed slider's callback
set_curve_scroll_seconds(seconds) ==
    /\ curve_scroll_seconds' = seconds
    /\ section_ms' = section_seconds(seconds)

SetCurveScrollSeconds(seconds) ==
    /\ set_curve_scroll_seconds(seconds)
    /\ scroll_op' = [name |-> "set_curve_scroll_seconds", arg |-> seconds,
                     mutation |-> "none", reversal |-> reversal,
                     step |-> FZero, before |-> <<>>]
    /\ UNCHANGED <<uiVars, sliderVars, clipVars, hermiteVars, curve_points, curve_scroll_direction, section_dt,
                   current_step, random_state, points_made, reversal>>

\* on_randomise_button_press(button)
on_randomise_button_press ==
    /\ curve_points' = randomise(curve_points, random_state)
    /\ random_state' = (random_state + Len(curve_points)) % Len(RandomValues)

OnRandomiseButtonPress ==
    /\ on_randomise_button_press
    /\ scroll_op' = [name |-> "on_randomise_button_press", arg |-> FZero,
                     mutation |-> "none", reversal |-> reversal,
                     step |-> FZero, before |-> <<>>]
    /\ UNCHANGED <<uiVars, sliderVars, clipVars, hermiteVars, curve_scroll_seconds, curve_scroll_direction, section_ms,
                   section_dt, current_step, points_made, reversal>>

NextScroll ==
    \/ \E dt \in TickSeconds : Tick(dt)
    \/ \E direction \in ScrollDirections : SetCurveScrollDirection(direction)
    \/ \E seconds \in ScrollSeconds : SetCurveScrollSeconds(seconds)
    \/ OnRandomiseButtonPress

SpecScroll == InitScroll /\ [][NextScroll]_vars

\* ------------------------------------------------- claims about the list

\* C1: the list curve_points never holds more than CURVE_POINTS points
C1_LengthBound == Len(curve_points) <= CURVE_POINTS

C1_Witness ==
    /\ scroll_op.name = "tick"
    /\ scroll_op.mutation = "prepend"
    /\ points_made > CURVE_POINTS + 1
    /\ Len(curve_points) = CURVE_POINTS

\* C2: once a tick has appended and the direction has been set negative, a
\* tick of zero seconds leaves the list alone and the first tick of more
\* than zero seconds puts a new point at the head of the list
C2_PrependAfterReversal ==
    (scroll_op.name = "tick" /\ scroll_op.reversal = "reversed")
    => IF FIsZero(scroll_op.arg)
       THEN scroll_op.mutation = "none"
       ELSE /\ scroll_op.mutation = "prepend"
            /\ curve_points[1].id = points_made

C2_Witness ==
    /\ scroll_op.name = "tick"
    /\ scroll_op.reversal = "reversed"
    /\ FGt(scroll_op.arg, FZero)
    /\ scroll_op.mutation = "prepend"
    /\ curve_points[1].id = points_made

\* the points of the list that are not in the other list, by id
PointsNotIn(points, others) ==
    { i \in DOMAIN points : \A j \in DOMAIN others : others[j].id # points[i].id }

\* C14: a tick whose floor(section_dt / section_ms) is CURVE_SECTION_SUBDIVISIONS
\* or more leaves current_step and section_dt 0.0 and the full list without
\* its first point and with one new point at its tail; a tick whose value is
\* from 0 to below CURVE_SECTION_SUBDIVISIONS leaves the list as it is; no tick
\* brings more than one new point into the list
C14_AppendOnCrossing ==
    scroll_op.name = "tick"
    => /\ FGe(scroll_op.step, FInt(CURVE_SECTION_SUBDIVISIONS))
          => /\ current_step = FZero /\ section_dt = FZero
             /\ Len(scroll_op.before) = CURVE_POINTS
             /\ Len(curve_points) = CURVE_POINTS
             /\ SubSeq(curve_points, 1, CURVE_POINTS - 1) = Tail(scroll_op.before)
             /\ PointsNotIn(curve_points, scroll_op.before) = { CURVE_POINTS }
       /\ (FGe(scroll_op.step, FZero) /\ FLt(scroll_op.step, FInt(CURVE_SECTION_SUBDIVISIONS)))
          => curve_points = scroll_op.before
       /\ Cardinality(PointsNotIn(curve_points, scroll_op.before)) <= 1

C14_Witness ==
    /\ scroll_op.name = "tick"
    /\ scroll_op.arg = FInt(10)
    /\ FGt(scroll_op.step, FInt(CURVE_SECTION_SUBDIVISIONS))
    /\ current_step = FZero /\ section_dt = FZero
    /\ Len(curve_points) = CURVE_POINTS
    /\ curve_points[CURVE_POINTS].id = points_made
    /\ curve_points[1].id = points_made - CURVE_POINTS + 1

\* C15: a tick whose floor(section_dt / section_ms) is negative leaves
\* current_step CURVE_SECTION_SUBDIVISIONS and section_dt
\* CURVE_SECTION_SUBDIVISIONS * section_ms, and the full list without its last
\* point and with one new point at its head
C15_PrependOnCrossing ==
    (scroll_op.name = "tick" /\ FLt(scroll_op.step, FZero))
    => /\ current_step = FInt(CURVE_SECTION_SUBDIVISIONS)
       /\ section_dt = FMul(FInt(CURVE_SECTION_SUBDIVISIONS), section_ms)
       /\ Len(scroll_op.before) = CURVE_POINTS
       /\ Len(curve_points) = CURVE_POINTS
       /\ Tail(curve_points) = SubSeq(scroll_op.before, 1, CURVE_POINTS - 1)
       /\ PointsNotIn(curve_points, scroll_op.before) = { 1 }

C15_Witness ==
    /\ scroll_op.name = "tick"
    /\ FLt(scroll_op.step, FZero)
    /\ current_step = FInt(CURVE_SECTION_SUBDIVISIONS)
    /\ section_dt = FMul(FInt(CURVE_SECTION_SUBDIVISIONS), section_ms)
    /\ Len(curve_points) = CURVE_POINTS
    /\ curve_points[1].id = points_made
    /\ curve_points[2].id = 1

\* C13: curve_scroll_direction is 1.0 or -1.0 in every state
C13_AsStated == FEq(curve_scroll_direction, FOne) \/ FEq(curve_scroll_direction, FNeg(FOne))

\* ------------------------------------------------- draw_line and the window

CURVE_X_MARGIN == 60

Vector2D(x, y) == [x |-> x, y |-> y]

\* Vector2D.__sub__: the new vector v, and self as the call leaves it
Vector2D_sub(self, other) ==
    [v |-> Vector2D(FSub(self.x, other.x), FSub(self.y, other.y)), self |-> self]

\* xclip_far, once m is known, and once dv is known
xclip_far_m(p1, x1, m) == Vector2D(x1, FAdd(FMul(m, x1), FSub(p1.y, FMul(m, p1.x))))

xclip_far_dv(p1, x1, dv) == xclip_far_m(p1, x1, FDiv(dv.y, dv.x))

xclip_near(p0, p1, x1) == p1

xclip_far(p0, p1, x1) == xclip_far_dv(p1, x1, Vector2D_sub(p1, p0).v)

\* draw_line: the lines it hands to OpenGL
draw_line(pos0, pos1) ==
    IF ~FGe(pos1.x, window_display_x0) \/ ~FLe(pos0.x, window_display_x1) THEN <<>>
    ELSE IF ~FGt(FAbs(FSub(pos1.x, pos0.x)), FLit(1, 1000)) THEN << <<pos0, pos1>> >>
    ELSE IF ~(FGe(pos0.x, window_display_x0) \/ FLe(pos1.x, window_display_x1)) THEN <<>>
    ELSE IF ~FGe(pos0.x, window_display_x0)
         THEN << <<xclip_far(pos1, pos0, window_display_x0), pos1>> >>
    ELSE IF ~FLe(pos1.x, window_display_x1)
         THEN << <<pos0, xclip_far(pos0, pos1, window_display_x1)>> >>
    ELSE << <<pos0, pos1>> >>

\* on_resize, once window_display_width is known
on_resize_display(width, height, display_width) ==
    /\ window_width' = width
    /\ window_height' = height
    /\ window_display_width' = display_width
    /\ window_display_x0' = FInt(CURVE_X_MARGIN)
    /\ window_display_x1' = FAdd(FInt(CURVE_X_MARGIN), display_width)
    /\ curve_section_width' = FDiv(display_width, FInt(CURVE_DISPLAY_SECTIONS))

on_resize(width, height) ==
    on_resize_display(width, height, FSub(FInt(width), FMul(FTwo, FInt(CURVE_X_MARGIN))))

\* the sizes the window is given, and the x and y of the points lines are
\* drawn between: either side of both edges of both windows, on the edges,
\* and less than 1e-3 short of the left edge
WindowSizes == { window_get_size, <<220, 480>> }

ClipXs == { FInt(50), FLit(599995, 10000), FInt(60), FInt(100), FInt(580), FInt(600) }

ClipYs == { <<FInt(80), FInt(100)>>, <<FInt(120), FInt(90)>> }

\* run(): the window's size, handed to on_resize
InitWindow ==
    /\ window_width = window_get_size[1]
    /\ window_height = window_get_size[2]
    /\ window_display_width = FSub(FInt(window_get_size[1]), FMul(FTwo, FInt(CURVE_X_MARGIN)))
    /\ window_display_x0 = FInt(CURVE_X_MARGIN)
    /\ window_display_x1 = FAdd(FInt(CURVE_X_MARGIN),
                                FSub(FInt(window_get_size[1]), FMul(FTwo, FInt(CURVE_X_MARGIN))))
    /\ curve_section_width = FDiv(FSub(FInt(window_get_size[1]), FMul(FTwo, FInt(CURVE_X_MARGIN))),
                                  FInt(CURVE_DISPLAY_SECTIONS))
    /\ gl_lines = <<>>
    /\ draw_op = [name |-> "run"]

InitClip == SliderIdle /\ ScrollIdle /\ HermiteIdle /\ UIIdle /\ InitWindow

OnResize(width, height) ==
    /\ on_resize(width, height)
    /\ draw_op' = [name |-> "on_resize"]
    /\ UNCHANGED <<uiVars, sliderVars, scrollVars, hermiteVars, gl_lines>>

DrawLine(pos0, pos1) ==
    /\ gl_lines' = draw_line(pos0, pos1)
    /\ draw_op' = [name |-> "draw_line", pos0 |-> pos0, pos1 |-> pos1,
                   window_display_x0 |-> window_display_x0,
                   window_display_x1 |-> window_display_x1]
    /\ UNCHANGED <<uiVars, sliderVars, scrollVars, hermiteVars, window_width, window_height,
                   window_display_width, window_display_x0, window_display_x1,
                   curve_section_width>>

NextClip ==
    \/ \E size \in WindowSizes : OnResize(size[1], size[2])
    \/ \E x0 \in ClipXs, x1 \in ClipXs, ys \in ClipYs :
          DrawLine(Vector2D(x0, ys[1]), Vector2D(x1, ys[2]))

SpecClip == InitClip /\ [][NextClip]_vars

\* ------------------------------------------------- claims about draw_line

\* C6: a line with both ends left of the window, or both right of it, is not
\* drawn; a line from left of the window to a point in it, more than 1e-3
\* long in x, is drawn once, from the window's left edge to its own second end
C6_Clipping ==
    draw_op.name = "draw_line" =>
       /\ (\/ FLt(draw_op.pos0.x, draw_op.window_display_x0)
              /\ FLt(draw_op.pos1.x, draw_op.window_display_x0)
           \/ FGt(draw_op.pos0.x, draw_op.window_display_x1)
              /\ FGt(draw_op.pos1.x, draw_op.window_display_x1))
          => gl_lines = <<>>
       /\ (/\ FLt(draw_op.pos0.x, draw_op.window_display_x0)
           /\ FLe(draw_op.window_display_x0, draw_op.pos1.x)
           /\ FLe(draw_op.pos1.x, draw_op.window_display_x1)
           /\ FGt(FAbs(FSub(draw_op.pos1.x, draw_op.pos0.x)), FLit(1, 1000)))
          => /\ Len(gl_lines) = 1
             /\ FEq(gl_lines[1][1].x, draw_op.window_display_x0)
             /\ gl_lines[1][2] = draw_op.pos1

C6_Witness ==
    /\ draw_op.name = "draw_line"
    /\ FLt(draw_op.pos0.x, draw_op.window_display_x0)
    /\ FLt(draw_op.window_display_x0, draw_op.pos1.x)
    /\ FLe(draw_op.pos1.x, draw_op.window_display_x1)
    /\ Len(gl_lines) = 1
    /\ FEq(gl_lines[1][1].x, draw_op.window_display_x0)
    /\ FGt(gl_lines[1][1].y, draw_op.pos0.y)
    /\ FLt(gl_lines[1][1].y, draw_op.pos1.y)
    /\ gl_lines[1][2] = draw_op.pos1

\* ------------------------------------------------- hermite_interpolation

\* Vector2D.__mul__, __div__ and __add__: the new vector v, and self as the
\* call leaves it
Vector2D_mul_self(self, other) ==
    [v |-> Vector2D(FMul(self.x, other), FMul(self.y, other)),
     self |-> Vector2D(FMul(self.x, other), FMul(self.y, other))]

Vector2D_mul(self, other) ==
    [v |-> Vector2D(FMul(self.x, other), FMul(self.y, other)), self |-> self]

Vector2D_div(self, other) ==
    [v |-> Vector2D(FDiv(self.x, other), FDiv(self.y, other)), self |-> self]

Vector2D_add(self, other) ==
    [v |-> Vector2D(FAdd(self.x, other.x), FAdd(self.y, other.y)), self |-> self]

FThree == FInt(3)

\* mu2 given, the numbers hermite_interpolation works with
hermite_scalars(mu, mu2, tension, bias) ==
    [mu |-> mu, mu2 |-> mu2, mu3 |-> FMul(mu2, mu),
     bias_up |-> FAdd(FOne, bias), bias_down |-> FSub(FOne, bias),
     slack |-> FSub(FOne, tension)]

hermite_a0(s) == FAdd(FSub(FMul(FTwo, s.mu3), FMul(FThree, s.mu2)), FOne)

hermite_a1(s) == FAdd(FSub(s.mu3, FMul(FTwo, s.mu2)), s.mu)

hermite_a2(s) == FSub(s.mu3, s.mu2)

hermite_a3_swapped(s) == FAdd(FMul(FNeg(FThree), s.mu3), FMul(FTwo, s.mu2))

hermite_a3(s) == FAdd(FMul(FNeg(FTwo), s.mu3), FMul(FThree, s.mu2))

\* d * (1.0 +- bias) * (1.0 - tension) / 2.0
hermite_tangent(d, b, slack) ==
    Vector2D_div(Vector2D_mul(Vector2D_mul(d, b).v, slack).v, FTwo).v

\* the last sum of line 157: the result v, and the four arguments as the
\* call leaves them
hermite_sum3(p0, p1, p3, sum, t3) ==
    [v |-> Vector2D_add(sum, t3.v).v, p0 |-> p0, p1 |-> p1, p2 |-> t3.self, p3 |-> p3]

\* line 157, p1*a0 (t0) and m0*a1 (t1) given
hermite_sum(p0, p2, p3, s, m1, t0, t1) ==
    hermite_sum3(p0, t0.self, p3,
                 Vector2D_add(Vector2D_add(t0.v, t1).v,
                              Vector2D_mul(m1, hermite_a2(s)).v).v,
                 Vector2D_mul(p2, hermite_a3(s)))

\* lines 150 to 157, the differences p2-p1 (d21) and p3-p2 (d32) of lines 150
\* and 151 given
hermite_m1(p0, p1, s, m0, d21, d32) ==
    hermite_sum(p0, d21.self, d32.self, s,
                Vector2D_add(hermite_tangent(d21.v, s.bias_up, s.slack),
                             hermite_tangent(d32.v, s.bias_down, s.slack)).v,
                Vector2D_mul(p1, hermite_a0(s)),
                Vector2D_mul(m0, hermite_a1(s)).v)

hermite_d32(p0, p1, p3, s, m0, d21) ==
    hermite_m1(p0, p1, s, m0, d21, Vector2D_sub(p3, d21.self))

\* lines 149 to 157, the first half of m0 and the difference p2-p1 (d21) of
\* line 149 given
hermite_m0_add(p0, p1, p3, s, m0, d21) ==
    hermite_d32(p0, p1, p3, s,
                Vector2D_add(m0, hermite_tangent(d21.v, s.bias_down, s.slack)).v,
                Vector2D_sub(d21.self, p1))

\* lines 148 to 157, the difference p1-p0 (d10) of line 148 given
hermite_m0(p0, p2, p3, s, d10) ==
    hermite_m0_add(p0, d10.self, p3, s,
                   hermite_tangent(d10.v, s.bias_up, s.slack),
                   Vector2D_sub(p2, d10.self))

hermite_with(p0, p1, p2, p3, s) == hermite_m0(p0, p2, p3, s, Vector2D_sub(p1, p0))

\* hermite_interpolation: the result v, and the four point arguments as the
\* call leaves them
hermite_interpolation(p0, p1, p2, p3, mu, tension, bias) ==
    hermite_with(p0, p1, p2, p3, hermite_scalars(mu, FMul(mu, mu), tension, bias))

\* ------------------------------------------------- run.py: draw_lines

NUM_CURVE_SLIDERS == 6

NUM_SECTION_STEPS == 20

stepFraction == FDiv(FOne, FInt(NUM_SECTION_STEPS))

\* create_curve_sliders, with the heights ys the circles have been dragged to
create_curve_sliders(ys) ==
    [i \in 1..NUM_CURVE_SLIDERS |->
        Vector2D(FInt(i * (window_get_size[1] \div (NUM_CURVE_SLIDERS + 1))), FInt(ys[i]))]

\* the Tension and Bias sliders as run.py builds them
run_tension_slider_box ==
    SliderBox(FInt(5), FInt(5), FInt(SLIDER_DEFAULT_WIDTH), FInt(SLIDER_DEFAULT_HEIGHT),
              FInt(-1), FInt(1), FLit(1, 10), FZero, <<>>, "None")

run_bias_slider_box ==
    SliderBox(FInt(5), FInt(135), FInt(SLIDER_DEFAULT_WIDTH), FInt(SLIDER_DEFAULT_HEIGHT),
              FInt(-1), FInt(1), FLit(1, 10), FZero, <<>>, "None")

\* the heights of the control points, and the rows the handles of the Tension
\* and the Bias slider are at: <<tension row, bias row>>
ControlRows == { <<100, 200, 300, 200, 100, 60>> }

HermiteRows == { <<55, 185>>, <<70, 170>>, <<25, 215>> }

\* the points and the steps k, mu = k / 20, hermite_interpolation is called with
HermitePoints == { Vector2D(FInt(91), FInt(80)), Vector2D(FInt(182), FInt(100)) }

HermiteGrid == { 0, 2, 10, 20 }

InitHermite ==
    /\ SliderIdle /\ ScrollIdle /\ ClipIdle /\ UIIdle
    /\ \E ys \in ControlRows, rows \in HermiteRows :
        /\ curve_sliders = create_curve_sliders(ys)
        /\ hermite_tension =
              get_value(event_drag_child(run_tension_slider_box, FInt(25), FInt(rows[1])))
        /\ hermite_bias =
              get_value(event_drag_child(run_bias_slider_box, FInt(25), FInt(rows[2])))
    /\ lines_at = <<>>
    /\ lines_p0 = <<>>
    /\ lines_out = <<>>
    /\ hermite_op = [name |-> "run"]

\* a call of hermite_interpolation
HermiteCalled(p0, p1, p2, p3, mu, call) ==
    hermite_op' = [name |-> "hermite_interpolation",
                   p0 |-> p0, p1 |-> p1, p2 |-> p2, p3 |-> p3, mu |-> mu,
                   tension |-> hermite_tension, bias |-> hermite_bias,
                   v |-> call.v,
                   after |-> <<call.p0, call.p1, call.p2, call.p3>>]

HermiteCall(p0, p1, p2, p3, mu) ==
    /\ hermite_op.name = "run"
    /\ HermiteCalled(p0, p1, p2, p3, mu,
                     hermite_interpolation(p0, p1, p2, p3, mu, hermite_tension, hermite_bias))
    /\ UNCHANGED <<uiVars, sliderVars, scrollVars, clipVars, curve_sliders, hermite_tension,
                   hermite_bias, lines_at, lines_p0, lines_out>>

\* draw_lines(LINES_HERMITE) up to its loop
DrawLinesBegin ==
    /\ hermite_op.name = "run"
    /\ lines_at' = <<1, 0>>
    /\ lines_p0' = Vector2D(curve_sliders[1].x, curve_sliders[1].y)
    /\ lines_out' = <<>>
    /\ hermite_op' = [name |-> "draw_lines"]
    /\ UNCHANGED <<uiVars, sliderVars, scrollVars, clipVars, curve_sliders, hermite_tension,
                   hermite_bias>>

\* one subdivision of the loop, the call of hermite_interpolation made
DrawLinesDraw(p0, p1, p2, p3, mu, call) ==
    /\ HermiteCalled(p0, p1, p2, p3, mu, call)
    /\ lines_out' = <<lines_p0, call.v>>
    /\ lines_p0' = call.v
    /\ lines_at' = (IF lines_at[2] + 1 < NUM_SECTION_STEPS
                    THEN <<lines_at[1], lines_at[2] + 1>>
                    ELSE <<lines_at[1] + 1, 0>>)

DrawLinesCall(p0, p1, p2, p3, mu) ==
    DrawLinesDraw(p0, p1, p2, p3, mu,
                  hermite_interpolation(p0, p1, p2, p3, mu, hermite_tension, hermite_bias))

\* one subdivision of the loop: i = lines_at[1] and j = lines_at[2], and
\* curve_sliders[i] of the code is curve_sliders[i + 1] here
DrawLinesStep ==
    /\ lines_at # <<>>
    /\ lines_at[1] < NUM_CURVE_SLIDERS
    /\ DrawLinesCall(curve_sliders[Max2(lines_at[1] - 2, 0) + 1],
                     curve_sliders[Max2(lines_at[1] - 1, 0) + 1],
                     curve_sliders[lines_at[1] + 1],
                     curve_sliders[Min2(lines_at[1] + 1, NUM_CURVE_SLIDERS - 1) + 1],
                     FAdd(FMul(FInt(lines_at[2]), stepFraction), stepFraction))
    /\ UNCHANGED <<uiVars, sliderVars, scrollVars, clipVars, curve_sliders, hermite_tension,
                   hermite_bias>>

NextHermite ==
    \/ \E p \in HermitePoints, k \in HermiteGrid :
          HermiteCall(p, p, p, p, FDiv(FInt(k), FInt(NUM_SECTION_STEPS)))
    \/ \E k \in HermiteGrid :
          HermiteCall(curve_sliders[1], curve_sliders[2], curve_sliders[3], curve_sliders[4],
                      FDiv(FInt(k), FInt(NUM_SECTION_STEPS)))
    \/ DrawLinesBegin
    \/ DrawLinesStep

SpecHermite == InitHermite /\ [][NextHermite]_vars

\* ------------------------------------------------- claims about hermite_interpolation

SamePoint(a, b) == FEq(a.x, b.x) /\ FEq(a.y, b.y)

\* C7: draw_lines starts its lines at the first control point and ends the
\* last line of every section at the section's second control point,
\* whatever the tension and the bias; hermite_interpolation gives p1 at
\* mu = 0 and p2 at mu = 1
C7_ThroughControlPoints ==
    /\ (lines_at # <<>> /\ lines_out # <<>> /\ lines_at[2] = 0)
       => SamePoint(lines_out[2], curve_sliders[lines_at[1]])
    /\ lines_at = <<1, 1>> => SamePoint(lines_out[1], curve_sliders[1])
    /\ (hermite_op.name = "hermite_interpolation" /\ FEq(hermite_op.mu, FZero))
       => SamePoint(hermite_op.v, hermite_op.p1)
    /\ (hermite_op.name = "hermite_interpolation" /\ FEq(hermite_op.mu, FOne))
       => SamePoint(hermite_op.v, hermite_op.p2)

C7_Witness ==
    /\ lines_at = <<NUM_CURVE_SLIDERS, 0>>
    /\ ~FIsZero(hermite_tension)
    /\ ~FIsZero(hermite_bias)
    /\ FEq(hermite_op.mu, FOne)
    /\ SamePoint(lines_out[2], curve_sliders[NUM_CURVE_SLIDERS])
    /\ ~SamePoint(lines_out[1], curve_sliders[NUM_CURVE_SLIDERS])

HermiteOfOnePoint ==
    /\ hermite_op.name = "hermite_interpolation"
    /\ hermite_op.p0 = hermite_op.p1
    /\ hermite_op.p1 = hermite_op.p2
    /\ hermite_op.p2 = hermite_op.p3

HermiteArgumentsKept ==
    hermite_op.after = <<hermite_op.p0, hermite_op.p1, hermite_op.p2, hermite_op.p3>>

\* C8, as the specification states it: hermite_interpolation(p, p, p, p, mu,
\* tension, bias) is p, and the call leaves its four point arguments as they were
C8_AsStated ==
    HermiteOfOnePoint => SamePoint(hermite_op.v, hermite_op.p1) /\ HermiteArgumentsKept

\* C8: hermite_interpolation(p, p, p, p, mu, tension, bias) is within 1e-9 of
\* p in x and in y, and the call leaves its four point arguments as they were
C8_NearPoint ==
    HermiteOfOnePoint
    => /\ FClose(hermite_op.v.x, hermite_op.p1.x)
       /\ FClose(hermite_op.v.y, hermite_op.p1.y)
       /\ HermiteArgumentsKept

C8_Witness ==
    /\ HermiteOfOnePoint
    /\ ~SamePoint(hermite_op.v, hermite_op.p1)
    /\ FClose(hermite_op.v.y, hermite_op.p1.y)
    /\ ~FIsZero(hermite_op.tension)
    /\ HermiteArgumentsKept

\* ------------------------------------------------- the widgets and the mouse

NUM_LINE_TYPES == 3

LINES_LINEAR == 0

LINES_SMOOTHSTEP == 1

LINES_HERMITE == 2

INITIAL_CURVE_TYPE == LINES_LINEAR

\* line_labels[t] of the code is line_labels[t + 1] here
line_labels == <<"Linear", "Smooth Step", "Hermite">>

BUTTON_DEFAULT_WIDTH == 80

BUTTON_DEFAULT_HEIGHT == 20

\* Label.__init__: width and height are the class attributes of UIElement
Label(x, y, label) ==
    [class |-> "Label", x |-> x, y |-> y, width |-> FZero, height |-> FZero, text |-> label]

\* Button.__init__
Button(x, y, width, height, label, callback) ==
    [class |-> "Button", x |-> x, y |-> y, width |-> width, height |-> height,
     label |-> label, callback |-> callback, pressed |-> FALSE]

\* the place in objects of a SliderBox's circle_element: the Circle itself is
\* the field circle_element of the SliderBox at position parent
CircleOf(parent) == [class |-> "Circle", parent |-> parent]

\* create_slider_box and SliderBox.__init__: the handle, then the box
create_slider_box(obs, box) ==
    obs \o <<CircleOf(Len(obs) + 2), box @@ [class |-> "SliderBox"]>>

button1_x ==
    FFloor(FDiv(FSub(FInt(window_get_size[1]),
                     FAdd(FInt((BUTTON_DEFAULT_WIDTH + 20) + (BUTTON_DEFAULT_WIDTH + 40)),
                          FInt(5))),
                FTwo))

tension_slider_box ==
    SliderBox(FInt(5), FInt(5), FInt(SLIDER_DEFAULT_WIDTH), FInt(SLIDER_DEFAULT_HEIGHT),
              FInt(-1), FInt(1), FLit(1, 10), FZero, <<LINES_HERMITE>>, "None")

bias_slider_box ==
    SliderBox(FInt(5), FInt(5 + SLIDER_DEFAULT_HEIGHT + 25),
              FInt(SLIDER_DEFAULT_WIDTH), FInt(SLIDER_DEFAULT_HEIGHT),
              FInt(-1), FInt(1), FLit(1, 10), FZero, <<LINES_HERMITE>>, "None")

\* set_tick_rate(30) has made tick_ps 30 by the time run() builds the slider
tick_ms_slider_box ==
    SliderBox(FInt(window_get_size[1] - SLIDER_DEFAULT_WIDTH - 5),
              FInt((5 + SLIDER_DEFAULT_HEIGHT + 25) + SLIDER_DEFAULT_HEIGHT + 25),
              FInt(SLIDER_DEFAULT_WIDTH), FInt(SLIDER_DEFAULT_HEIGHT),
              FZero, FInt(60), FInt(5), FInt(30), <<>>, "set_tick_rate")

\* set_curve_type: the text it gives the label, first in objects
set_curve_type(obs, new_curve_type) ==
    [obs EXCEPT ![1].text = line_labels[new_curve_type + 1]]

\* run(): the list objects once every widget is built
run_objects ==
    set_curve_type(
        create_slider_box(create_slider_box(create_slider_box(create_slider_box(
        create_slider_box(
            <<Label(FDiv(FInt(window_get_size[1]), FTwo), FInt(window_get_size[2] - 10 - 5),
                    "Label"),
              Button(button1_x, FInt(5), FInt(BUTTON_DEFAULT_WIDTH + 20),
                     FInt(BUTTON_DEFAULT_HEIGHT), "Randomise", "on_randomise_button_press"),
              Button(FAdd(FAdd(button1_x, FInt(BUTTON_DEFAULT_WIDTH + 20)), FInt(5)),
                     FInt(5), FInt(BUTTON_DEFAULT_WIDTH + 40), FInt(BUTTON_DEFAULT_HEIGHT),
                     "Change Curve Type", "on_next_curve_type_button_press")>>,
            tension_slider_box), bias_slider_box), curve_speed_slider_box),
            curve_direction_slider_box), tick_ms_slider_box),
        INITIAL_CURVE_TYPE)

\* set_tick_rate: the value it gives tick_ms, and the clock's schedule of
\* tick after its unschedule and schedule_interval
tick_rate_ms(value) == IF FIsZero(value) THEN FZero ELSE FDiv(FOne, value)

\* set_tick_rate with schedule_interval called whatever the value
tick_rate_reschedule(value) == <<tick_rate_ms(value)>>

tick_rate_schedule(value) ==
    IF FGt(FAbs(value), FLit(1, 100000)) THEN <<tick_rate_ms(value)>> ELSE <<>>

set_tick_rate(value) ==
    /\ tick_ps' = 30
    /\ tick_ms' = tick_rate_ms(value)
    /\ tick_schedule' = tick_rate_schedule(value)

\* UIElement.within
UIElement_within(self, x, y) ==
    /\ FGt(x, self.x) /\ FLt(x, FAdd(self.x, self.width))
    /\ FGt(y, self.y) /\ FLt(y, FAdd(self.y, self.height))

\* Circle.within, dx = x - self.x and dy = y - self.y given. dx ** 2.0 is the
\* correctly rounded square, and math.sqrt(s) < radius is s < radius * radius:
\* the product is exact for the radius 4.0 the handles have, and the
\* correctly rounded root of a double below 16 is below 4
Circle_within_d(self, dx, dy) ==
    FLt(FAdd(FMul(dx, dx), FMul(dy, dy)), FMul(self.radius, self.radius))

Circle_within(self, x, y) == Circle_within_d(self, FSub(x, self.x), FSub(y, self.y))

\* ob.within(x, y) of the object at position i
within(obs, i, x, y) ==
    IF obs[i].class = "Circle"
    THEN Circle_within(obs[obs[i].parent].circle_element, x, y)
    ELSE UIElement_within(obs[i], x, y)

\* ob.drawable() of the object at position i while curve_type is type:
\* SliderBox.drawable, Circle.drawable, which asks the parent, and
\* UIElement.drawable; curve_types None is the empty sequence here
drawable(obs, i, type) ==
    IF obs[i].class = "SliderBox"
    THEN obs[i].curve_types = <<>> \/ \E k \in DOMAIN obs[i].curve_types : obs[i].curve_types[k] = type
    ELSE IF obs[i].class = "Circle"
    THEN obs[obs[i].parent].curve_types = <<>>
         \/ \E k \in DOMAIN obs[obs[i].parent].curve_types :
                obs[obs[i].parent].curve_types[k] = type
    ELSE TRUE

\* find_ui_element, from position i on
RECURSIVE find_ui_element_from(_, _, _, _)
find_ui_element_from(obs, i, x, y) ==
    IF i > Len(obs) THEN None
    ELSE IF within(obs, i, x, y) THEN i
    ELSE find_ui_element_from(obs, i + 1, x, y)

find_first_object(obs, x, y) == 1

\* find_ui_element with the list searched from its end
RECURSIVE find_ui_element_back(_, _, _, _)
find_ui_element_back(obs, i, x, y) ==
    IF i < 1 THEN None
    ELSE IF within(obs, i, x, y) THEN i
    ELSE find_ui_element_back(obs, i - 1, x, y)

find_last_ui_element(obs, x, y) == find_ui_element_back(obs, Len(obs), x, y)

find_ui_element(obs, x, y) == find_ui_element_from(obs, 1, x, y)

\* event_press of the object at position i
event_press(obs, i) ==
    IF obs[i].class = "Button" THEN [obs EXCEPT ![i].pressed = TRUE]
    ELSE IF obs[i].class = "Circle"
    THEN [obs EXCEPT ![obs[i].parent].circle_element.draw_style = "SELECTED_DRAW_STYLE"]
    ELSE obs

\* event_release of the object at position i, but for a Button's callback
event_release(obs, i) ==
    IF obs[i].class = "Button" THEN [obs EXCEPT ![i].pressed = FALSE]
    ELSE IF obs[i].class = "Circle"
    THEN [obs EXCEPT ![obs[i].parent].circle_element.draw_style = "NORMAL_DRAW_STYLE"]
    ELSE obs

\* the callback Button.event_release of the object at position i calls
released_callback_anywhere(obs, i, x, y) ==
    IF obs[i].class = "Button" /\ obs[i].pressed THEN obs[i].callback ELSE "None"

released_callback(obs, i, x, y) ==
    IF obs[i].class = "Button" /\ obs[i].pressed /\ within(obs, i, x, y)
    THEN obs[i].callback
    ELSE "None"

\* Circle.event_drag of a handle as if it had no parent: y clamped to
\* CURVE_Y0..CURVE_Y1 becomes the handle's y
event_drag_alone(obs, i, x, y) ==
    IF obs[i].class = "Circle"
    THEN [obs EXCEPT ![obs[i].parent].circle_element.y =
              PyMax(FInt(CURVE_Y0), PyMin(y, FInt(CURVE_Y1)))]
    ELSE obs

\* event_drag of the object at position i, but for a SliderBox's callback
event_drag(obs, i, x, y) ==
    IF obs[i].class = "Circle"
    THEN [obs EXCEPT ![obs[i].parent] = event_drag_child(@, x, y)]
    ELSE obs

\* the callback event_drag of the object at position i calls, and its argument
dragged_callback(obs, i) ==
    IF obs[i].class = "Circle" THEN obs[obs[i].parent].callback ELSE "None"

dragged_value(obs, i) ==
    IF obs[i].class = "Circle" THEN get_value(obs[obs[i].parent]) ELSE FZero

\* the globals a callback may set, and a call of the callback called name
globals ==
    <<curve_points, random_state, curve_scroll_seconds, section_ms, curve_scroll_direction,
      curve_type, tick_ms, tick_ps, tick_schedule>>

call(name, value) ==
    /\ called' = (IF name = "None" THEN <<>> ELSE <<name>>)
    /\ CASE name = "None" -> UNCHANGED globals
      [] name = "on_randomise_button_press" ->
            /\ on_randomise_button_press
            /\ UNCHANGED <<curve_scroll_seconds, section_ms, curve_scroll_direction,
                           curve_type, tick_ms, tick_ps, tick_schedule>>
      [] name = "on_next_curve_type_button_press" ->
            /\ curve_type' = (curve_type + 1) % NUM_LINE_TYPES
            /\ UNCHANGED <<curve_points, random_state, curve_scroll_seconds, section_ms,
                           curve_scroll_direction, tick_ms, tick_ps, tick_schedule>>
      [] name = "set_curve_scroll_seconds" ->
            /\ set_curve_scroll_seconds(value)
            /\ UNCHANGED <<curve_points, random_state, curve_scroll_direction,
                           curve_type, tick_ms, tick_ps, tick_schedule>>
      [] name = "set_curve_scroll_direction" ->
            /\ set_curve_scroll_direction(value)
            /\ UNCHANGED <<curve_points, random_state, curve_scroll_seconds, section_ms,
                           curve_type, tick_ms, tick_ps, tick_schedule>>
      [] name = "set_tick_rate" ->
            /\ set_tick_rate(value)
            /\ UNCHANGED <<curve_points, random_state, curve_scroll_seconds, section_ms,
                           curve_scroll_direction, curve_type>>

\* the mouse event just handled
Handled(name, x, y, button) ==
    /\ ui_op' = [name |-> name, button |-> button, x |-> x, y |-> y,
                 selected |-> selected_ui_element,
                 within |-> /\ selected_ui_element' # None
                            /\ within(objects', selected_ui_element', FInt(x), FInt(y)),
                 changed |-> <<objects, globals>>' # <<objects, globals>>]
    /\ UNCHANGED <<sliderVars, clipVars, hermiteVars, section_dt, current_step,
                   points_made, scroll_op, reversal>>

\* on_mouse_press with the left button, find_ui_element's answer given
on_mouse_press_found(found) ==
    /\ selected_ui_element' = found
    /\ objects' = (IF found = None THEN objects ELSE event_press(objects, found))

on_mouse_press(x, y, button) ==
    /\ IF button = "LEFT"
       THEN on_mouse_press_found(find_ui_element(objects, FInt(x), FInt(y)))
       ELSE UNCHANGED <<objects, selected_ui_element>>
    /\ UNCHANGED globals
    /\ called' = <<>>

\* on_mouse_release with the left button and an element selected, the
\* callback its event_release calls given
on_mouse_release_call(name) ==
    /\ objects' = (IF name = "on_next_curve_type_button_press"
                   THEN set_curve_type(event_release(objects, selected_ui_element),
                                       (curve_type + 1) % NUM_LINE_TYPES)
                   ELSE event_release(objects, selected_ui_element))
    /\ call(name, FZero)
    /\ selected_ui_element' = None

on_mouse_release(x, y, button) ==
    IF button = "LEFT" /\ selected_ui_element # None
    THEN on_mouse_release_call(released_callback(objects, selected_ui_element,
                                                 FInt(x), FInt(y)))
    ELSE UNCHANGED <<objects, selected_ui_element, globals>> /\ called' = <<>>

\* on_mouse_drag with an element selected, the list as event_drag leaves it given
on_mouse_drag_to(obs) ==
    /\ objects' = obs
    /\ call(dragged_callback(obs, selected_ui_element),
            dragged_value(obs, selected_ui_element))

on_mouse_drag(x, y) ==
    /\ IF selected_ui_element # None
       THEN on_mouse_drag_to(event_drag(objects, selected_ui_element, FInt(x), FInt(y)))
       ELSE UNCHANGED <<objects, globals>> /\ called' = <<>>
    /\ UNCHANGED selected_ui_element

\* the points of the mouse events: in the Randomise button, on the handle of
\* the Direction slider as run() leaves it, and in no widget
MousePoints == { <<250, 15>>, <<615, 210>>, <<300, 300>> }

MouseButtons == { "LEFT", "RIGHT" }

InitUI ==
    /\ SliderIdle /\ HermiteIdle /\ InitWindow /\ InitCurve(0)
    /\ objects = run_objects
    /\ selected_ui_element = None
    /\ curve_type = INITIAL_CURVE_TYPE
    /\ tick_ps = 30
    /\ tick_ms = tick_rate_ms(get_value(tick_ms_slider_box))
    /\ tick_schedule = tick_rate_schedule(get_value(tick_ms_slider_box))
                         \o <<tick_rate_ms(get_value(tick_ms_slider_box))>>
    /\ ui_op = [name |-> "run", button |-> "None", x |-> 0, y |-> 0, selected |-> None,
                within |-> FALSE, changed |-> FALSE]
    /\ called = <<>>

OnMousePress(x, y, button) ==
    on_mouse_press(x, y, button) /\ Handled("on_mouse_press", x, y, button)

OnMouseRelease(x, y, button) ==
    on_mouse_release(x, y, button) /\ Handled("on_mouse_release", x, y, button)

OnMouseDrag(x, y, buttons) ==
    on_mouse_drag(x, y) /\ Handled("on_mouse_drag", x, y, buttons)

NextUI ==
    \/ \E p \in MousePoints, button \in MouseButtons : OnMousePress(p[1], p[2], button)
    \/ \E p \in MousePoints, button \in MouseButtons : OnMouseRelease(p[1], p[2], button)
    \/ \E p \in MousePoints, buttons \in MouseButtons : OnMouseDrag(p[1], p[2], buttons)

SpecUI == InitUI /\ [][NextUI]_vars

\* ------------------------------------------------- claims about the selected element

\* C10: selected_ui_element comes to name an element only by a press of the
\* left button on a point within that element, names none after every
\* release of the left button, and a drag while it names none changes no
\* widget and no global
C10_SelectedDuringGesture ==
    /\ (selected_ui_element # None /\ selected_ui_element # ui_op.selected)
       => /\ ui_op.name = "on_mouse_press"
          /\ ui_op.button = "LEFT"
          /\ ui_op.within
    /\ (ui_op.name = "on_mouse_release" /\ ui_op.button = "LEFT")
       => selected_ui_element = None
    /\ (ui_op.name = "on_mouse_drag" /\ ui_op.selected = None) => ~ui_op.changed

C10_Witness ==
    /\ ui_op.name = "on_mouse_release"
    /\ ui_op.button = "LEFT"
    /\ ui_op.selected # None
    /\ objects[ui_op.selected].class = "Circle"
    /\ selected_ui_element = None
    /\ FLt(curve_scroll_direction, FZero)

\* the positions in objects of the widgets the point of the last event is within
WidgetsAtPoint == { i \in DOMAIN objects : within(objects, i, FInt(ui_op.x), FInt(ui_op.y)) }

\* C16: a press of the left button selects the first widget of objects, in
\* the order of registration, that its point is within, and none if there is
\* no such widget; a point within a handle and within its SliderBox, and
\* within no widget registered before them, selects the handle
C16_FirstRegistered ==
    (ui_op.name = "on_mouse_press" /\ ui_op.button = "LEFT")
    => /\ WidgetsAtPoint = {} => selected_ui_element = None
       /\ WidgetsAtPoint # {}
          => /\ selected_ui_element \in WidgetsAtPoint
             /\ \A i \in WidgetsAtPoint : selected_ui_element <= i
       /\ \A i \in WidgetsAtPoint :
             (/\ objects[i].class = "Circle"
              /\ objects[i].parent \in WidgetsAtPoint
              /\ \A j \in WidgetsAtPoint : i <= j)
             => (selected_ui_element = i /\ i < objects[i].parent)

C16_Witness ==
    /\ ui_op.name = "on_mouse_press" /\ ui_op.button = "LEFT"
    /\ selected_ui_element # None
    /\ objects[selected_ui_element].class = "Circle"
    /\ objects[selected_ui_element].parent \in WidgetsAtPoint
    /\ selected_ui_element < objects[selected_ui_element].parent

\* ------------------------------------------------- the handle of the Tension slider

\* the points of the mouse events: on the handle of the Tension slider as
\* run() leaves it, beside its track, and above its box
HandlePoints == { <<25, 55>>, <<30, 63>>, <<28, 120>> }

NextHandle ==
    \/ \E p \in HandlePoints, button \in MouseButtons : OnMousePress(p[1], p[2], button)
    \/ \E p \in HandlePoints, button \in MouseButtons : OnMouseRelease(p[1], p[2], button)
    \/ \E p \in HandlePoints, buttons \in MouseButtons : OnMouseDrag(p[1], p[2], buttons)

SpecHandle == InitUI /\ [][NextHandle]_vars

\* ------------------------------------------------- claims about the handles

\* C17: the handle of every SliderBox has the x it was built with, and its y
\* is y0_track + fraction * track_height of the SliderBox, whatever the points
\* of the drags
C17_HandleOnTrack ==
    \A i \in DOMAIN objects :
        objects[i].class = "SliderBox"
        => /\ objects[i].circle_element.x = run_objects[i].circle_element.x
           /\ objects[i].circle_element.y
                = FAdd(objects[i].y0_track, FMul(objects[i].fraction, objects[i].track_height))

C17_Witness ==
    /\ ui_op.name = "on_mouse_drag"
    /\ ui_op.x = 30 /\ ui_op.y = 63
    /\ ui_op.selected # None
    /\ objects[ui_op.selected].class = "Circle"
    /\ ui_op.changed
    /\ objects[objects[ui_op.selected].parent].circle_element.x = FInt(25)
    /\ objects[objects[ui_op.selected].parent].circle_element.y = FInt(64)

\* C19: a press of the left button selects no widget that is not drawable in
\* the current curve type, and a drag while the selected widget is not
\* drawable changes no widget and no global
C19_AsStated ==
    /\ (ui_op.name = "on_mouse_press" /\ ui_op.button = "LEFT" /\ selected_ui_element # None)
       => drawable(objects, selected_ui_element, curve_type)
    /\ (/\ ui_op.name = "on_mouse_drag"
        /\ ui_op.selected # None
        /\ ~drawable(objects, ui_op.selected, curve_type))
       => ~ui_op.changed

\* ------------------------------------------------- dynamic.py: draw_lines

CURVE_SUBDIVISION_FRACTION == FDiv(FOne, FInt(CURVE_SECTION_SUBDIVISIONS))

\* the position here of curve_points[k] of the code, a negative k counting
\* from the end of the list as Python's list indexing does
list_index(points, k) == (IF k < 0 THEN k + Len(points) ELSE k) + 1

\* Vector2D(point) of a point of the list: a copy of its x and y
Vector2D_copy(point) == Vector2D(point.x, point.y)

\* the seconds the clock hands to tick between two frames, and the ticks that
\* add a point to the list a behaviour makes at most
FrameSeconds == { FLit(1, 4) }

MaxFrameCrossings == 1

\* run() and two presses of the Change Curve Type button: the curve type is
\* LINES_HERMITE and no frame has been drawn yet
InitFrame ==
    /\ SliderIdle /\ InitWindow /\ InitCurve(0)
    /\ curve_sliders = <<>> /\ hermite_tension = FZero /\ hermite_bias = FZero
    /\ lines_at = <<>> /\ lines_p0 = <<>> /\ lines_out = <<>>
    /\ hermite_op = [name |-> "run"]
    /\ objects = set_curve_type(run_objects, LINES_HERMITE)
    /\ selected_ui_element = None
    /\ curve_type = LINES_HERMITE
    /\ tick_ps = 30
    /\ tick_ms = tick_rate_ms(get_value(tick_ms_slider_box))
    /\ tick_schedule = tick_rate_schedule(get_value(tick_ms_slider_box))
                         \o <<tick_rate_ms(get_value(tick_ms_slider_box))>>
    /\ ui_op = [name |-> "on_mouse_release", button |-> "LEFT", x |-> 350, y |-> 15,
                selected |-> 3, within |-> FALSE, changed |-> TRUE]
    /\ called = <<"on_next_curve_type_button_press">>

\* draw_lines: x_start before the loop
draw_lines_x_start(step_fraction) ==
    FSub(FSub(window_display_x0, FMul(FOne, curve_section_width)),
         FMul(curve_section_width, step_fraction))

\* draw_lines(LINES_HERMITE) up to its loop over the sections; lines_at is
\* <<i, j, x_start>>, j = -1 before the section's points have their x
FrameBegin ==
    /\ lines_at = <<>>
    /\ curve_type = LINES_HERMITE
    /\ Len(curve_points) # 0
    /\ lines_at' = <<1, -1, draw_lines_x_start(FMul(current_step, CURVE_SUBDIVISION_FRACTION))>>
    /\ hermite_tension' = get_value(objects[5])
    /\ hermite_bias' = get_value(objects[7])
    /\ lines_p0' = <<>>
    /\ lines_out' = <<>>
    /\ hermite_op' = [name |-> "draw_lines"]
    /\ UNCHANGED <<uiVars, sliderVars, scrollVars, clipVars, curve_sliders>>

\* lines_at once the section i is left
section_left(i, x_start) == IF i + 1 < CURVE_SECTIONS THEN <<i + 1, -1, x_start>> ELSE <<>>

\* the body of the loop over the sections, i > 0, up to the loop over the
\* subdivisions: point0 and point1 get their x, and the section is skipped if
\* it is wholly outside the display
FrameSectionAt(i, x_start, x_end) ==
    /\ curve_points' = [curve_points EXCEPT ![list_index(curve_points, i - 1)].x = x_start,
                                            ![list_index(curve_points, i)].x = x_end]
    /\ lines_p0' = Vector2D(x_start, curve_points[list_index(curve_points, i - 1)].y)
    /\ lines_at' = (IF FLt(x_end, window_display_x0) \/ FGt(x_start, window_display_x1)
                    THEN section_left(i, x_end)
                    ELSE <<i, 0, x_end>>)

FrameSection ==
    /\ lines_at # <<>>
    /\ lines_at[2] = -1
    /\ FrameSectionAt(lines_at[1], lines_at[3], FAdd(lines_at[3], curve_section_width))
    /\ UNCHANGED <<uiVars, sliderVars, clipVars, curve_sliders, hermite_tension, hermite_bias,
                   lines_out, hermite_op, curve_scroll_seconds, curve_scroll_direction,
                   section_ms, section_dt, current_step, random_state, points_made, scroll_op,
                   reversal>>

\* one subdivision of the section i: the call of hermite_interpolation on
\* copies of the points at the positions at, and the call of draw_line
FrameDraw(i, j, at, p0, p1, p2, p3, mu, result) ==
    /\ hermite_op' = [name |-> "hermite_interpolation", i |-> i, at |-> at,
                      p0 |-> p0, p1 |-> p1, p2 |-> p2, p3 |-> p3, mu |-> mu,
                      tension |-> hermite_tension, bias |-> hermite_bias,
                      v |-> result.v,
                      after |-> <<result.p0, result.p1, result.p2, result.p3>>]
    /\ lines_out' = <<lines_p0, result.v>>
    /\ gl_lines' = draw_line(lines_p0, result.v)
    /\ lines_p0' = result.v
    /\ lines_at' = (IF j + 1 < CURVE_SECTION_SUBDIVISIONS
                    THEN <<i, j + 1, lines_at[3]>>
                    ELSE section_left(i, lines_at[3]))

FrameCall(i, j, at, p0, p1, p2, p3, mu) ==
    FrameDraw(i, j, at, p0, p1, p2, p3, mu,
              hermite_interpolation(p0, p1, p2, p3, mu, hermite_tension, hermite_bias))

FrameAt(i, j, at) ==
    FrameCall(i, j, at,
              Vector2D_copy(curve_points[at[1]]), Vector2D_copy(curve_points[at[2]]),
              Vector2D_copy(curve_points[at[3]]), Vector2D_copy(curve_points[at[4]]),
              FAdd(FMul(FInt(j), CURVE_SUBDIVISION_FRACTION), CURVE_SUBDIVISION_FRACTION))

FrameStep ==
    /\ lines_at # <<>>
    /\ lines_at[2] >= 0
    /\ FrameAt(lines_at[1], lines_at[2],
               <<list_index(curve_points, lines_at[1] - 2),
                 list_index(curve_points, lines_at[1] - 1),
                 list_index(curve_points, lines_at[1] - 0),
                 list_index(curve_points, lines_at[1] + 1)>>)
    /\ UNCHANGED <<uiVars, sliderVars, scrollVars, curve_sliders, hermite_tension, hermite_bias,
                   window_width, window_height, window_display_width, window_display_x0,
                   window_display_x1, curve_section_width, draw_op>>

\* the clock calls tick between two frames
FrameTick(dt) ==
    /\ lines_at = <<>>
    /\ tick_schedule # <<>>
    /\ points_made < CURVE_POINTS + MaxFrameCrossings
    /\ Tick(dt)

NextFrame ==
    \/ FrameBegin
    \/ FrameSection
    \/ FrameStep
    \/ \E dt \in FrameSeconds : FrameTick(dt)

SpecFrame == InitFrame /\ [][NextFrame]_vars

\* ------------------------------------------------- claims about draw_lines

\* C18: every call of hermite_interpolation draw_lines makes for the section
\* between the points i - 1 and i of the list takes as p0 and p3 the points
\* at i - 2 and i + 1, an index below 0 replaced by 0 and one above the last
\* by the last
C18_AsStated ==
    hermite_op.name = "hermite_interpolation"
    => /\ hermite_op.at[1] = Max2(hermite_op.i - 2, 0) + 1
       /\ hermite_op.at[4] = Min2(hermite_op.i + 1, Len(curve_points) - 1) + 1

\* ------------------------------------------------- the two buttons

\* the points of the mouse events: in the Randomise button, on its right
\* edge, in the Change Curve Type button, and in no widget
ButtonPoints == { <<250, 15>>, <<307, 15>>, <<350, 15>>, <<300, 300>> }

NextButton ==
    \/ \E p \in ButtonPoints, button \in MouseButtons : OnMousePress(p[1], p[2], button)
    \/ \E p \in ButtonPoints, button \in MouseButtons : OnMouseRelease(p[1], p[2], button)
    \/ \E p \in ButtonPoints, buttons \in MouseButtons : OnMouseDrag(p[1], p[2], buttons)

SpecButton == InitUI /\ [][NextButton]_vars

\* ------------------------------------------------- claims about the buttons

\* the point (x, y) is strictly inside the bounds of the Button b
StrictlyInside(b, x, y) ==
    /\ FLt(b.x, FInt(x)) /\ FLt(FInt(x), FAdd(b.x, b.width))
    /\ FLt(b.y, FInt(y)) /\ FLt(FInt(y), FAdd(b.y, b.height))

ButtonCallbacks == { objects[i].callback : i \in { j \in DOMAIN objects : objects[j].class = "Button" } }

\* C11: a release of the left button while a Button is the selected element
\* calls that Button's callback once if the point of the release is strictly
\* inside the Button's bounds and calls nothing otherwise, and leaves the
\* Button's pressed flag false; no other mouse event calls a Button's callback
C11_ButtonCallback ==
    IF /\ ui_op.name = "on_mouse_release" /\ ui_op.button = "LEFT"
       /\ ui_op.selected # None
       /\ objects[ui_op.selected].class = "Button"
    THEN /\ ~objects[ui_op.selected].pressed
         /\ called = (IF StrictlyInside(objects[ui_op.selected], ui_op.x, ui_op.y)
                      THEN <<objects[ui_op.selected].callback>>
                      ELSE <<>>)
    ELSE \A k \in DOMAIN called : called[k] \notin ButtonCallbacks

C11_Witness ==
    /\ ui_op.name = "on_mouse_release" /\ ui_op.button = "LEFT"
    /\ ui_op.selected # None
    /\ objects[ui_op.selected].class = "Button"
    /\ ui_op.x = 307
    /\ called = <<>>
    /\ curve_type = LINES_SMOOTHSTEP
    /\ ~objects[ui_op.selected].pressed

\* ------------------------------------------------- the clock and the Updates slider

\* the points of the mouse events: on the handle of the Updates slider as
\* run() leaves it, and at the end of its track where the value is 0.0
ClockPoints == { <<615, 305>>, <<615, 275>> }

\* pyglet's clock calls tick for the k-th entry of its schedule
ClockTick(k, dt) ==
    /\ k \in DOMAIN tick_schedule
    /\ Tick(dt)

NextClock ==
    \/ \E p \in ClockPoints : OnMousePress(p[1], p[2], "LEFT")
    \/ \E p \in ClockPoints : OnMouseRelease(p[1], p[2], "LEFT")
    \/ \E p \in ClockPoints : OnMouseDrag(p[1], p[2], "LEFT")
    \/ \E k \in 1..2, dt \in TickSeconds : ClockTick(k, dt)

SpecClock == InitUI /\ [][NextClock]_vars

\* ------------------------------------------------- claims about the clock

\* C12: while the tick rate is zero (tick_ms is 0.0, as set_tick_rate(0)
\* leaves it) tick is not scheduled, and no step changes the scroll clock or
\* the list
C12_ZeroRateStopsTicks ==
    [][tick_ms = FZero
         => /\ tick_schedule = <<>>
            /\ UNCHANGED <<curve_points, section_dt, current_step, points_made, random_state,
                           scroll_op>>]_vars

C12_Witness ==
    /\ tick_ms = FZero
    /\ tick_schedule = <<>>
    /\ called = <<"set_tick_rate">>
    /\ ui_op.name = "on_mouse_drag"
    /\ scroll_op.name = "tick"
    /\ points_made > CURVE_POINTS

\* C20: pyglet's clock has tick scheduled at most once in every state, from
\* the moment run() reaches the event loop on
C20_AsStated == Len(tick_schedule) <= 1

\* ------------------------------------------------- draw_lines and the list

\* curve_points[k] of the code exists: Python raises IndexError otherwise
valid_index(points, k) == -Len(points) <= k /\ k < Len(points)

\* curve_points[k].x = x
set_point_x(points, k, x) == [points EXCEPT ![list_index(points, k)].x = x]

\* the section from x_start to x_end is not skipped by the continue
section_drawn(x_start, x_end) ==
    ~(FLt(x_end, window_display_x0) \/ FGt(x_start, window_display_x1))

\* the indexes of curve_points the subdivisions of the section i read:
\* curve_points[i-2] and curve_points[i+1] in the calls of
\* hermite_interpolation, next to i-1 and i that are read before
subdivision_indexes(line_type, i, x_start, x_end) ==
    IF line_type = LINES_HERMITE /\ section_drawn(x_start, x_end) THEN <<i - 2, i + 1>> ELSE <<>>

\* what a call of draw_lines has done when it returns or raises
draw_lines_end(points, read, raised) == [points |-> points, read |-> read, raised |-> raised]

RECURSIVE draw_lines_sections(_, _, _, _, _)

\* the subdivisions of the section i, the indexes they read given, and the
\* sections after it
draw_lines_subdivisions(line_type, points, i, x_end, read, indexes) ==
    IF indexes # <<>> /\ ~valid_index(points, indexes[1])
    THEN draw_lines_end(points, read \cup { indexes[1] }, TRUE)
    ELSE IF indexes # <<>> /\ ~valid_index(points, indexes[2])
    THEN draw_lines_end(points, read \cup { indexes[1], indexes[2] }, TRUE)
    ELSE draw_lines_sections(line_type, points, i + 1, x_end,
                             read \cup { indexes[k] : k \in DOMAIN indexes })

\* the body of the loop over the sections for i > 0: point0 and point1 are
\* read and get their x, then the subdivisions are drawn
draw_lines_section(line_type, points, i, x_start, x_end, read) ==
    IF ~valid_index(points, i - 1)
    THEN draw_lines_end(points, read \cup { i - 1 }, TRUE)
    ELSE IF ~valid_index(points, i)
    THEN draw_lines_end(set_point_x(points, i - 1, x_start), read \cup { i - 1, i }, TRUE)
    ELSE draw_lines_subdivisions(line_type,
                                 set_point_x(set_point_x(points, i - 1, x_start), i, x_end),
                                 i, x_end, read \cup { i - 1, i },
                                 subdivision_indexes(line_type, i, x_start, x_end))

\* the loop over the sections from i on
draw_lines_sections(line_type, points, i, x_start, read) ==
    IF i >= CURVE_SECTIONS THEN draw_lines_end(points, read, FALSE)
    ELSE draw_lines_section(line_type, points, i, x_start,
                            FAdd(x_start, curve_section_width), read)

\* draw_lines(line_type): the list as it leaves it, the indexes it read, and
\* whether it raised
draw_lines(line_type, points) ==
    IF Len(points) = 0 THEN draw_lines_end(points, {}, FALSE)
    ELSE draw_lines_sections(line_type, points, 1,
                             draw_lines_x_start(FMul(current_step, CURVE_SUBDIVISION_FRACTION)),
                             {})

\* a call of draw_lines, what it has done given
DrawLinesEnd(end) ==
    /\ curve_points' = end.points
    /\ draw_op' = [name |-> "draw_lines", read |-> end.read, raised |-> end.raised]
    /\ UNCHANGED <<uiVars, sliderVars, hermiteVars, curve_scroll_seconds,
                   curve_scroll_direction, section_ms, section_dt, current_step, random_state,
                   points_made, scroll_op, reversal, window_width, window_height,
                   window_display_width, window_display_x0, window_display_x1,
                   curve_section_width, gl_lines>>

\* on_draw: draw_lines(curve_type), for each of the line types
DrawLinesOf(line_type) == DrawLinesEnd(draw_lines(line_type, curve_points))

\* the seconds the clock hands to tick between two frames: every tick
\* crosses a section or returns to its start
RenderSeconds == { FHalf }

\* the two ends of the Direction slider's track
RenderDirections == { direction \in ScrollDirections : ~FIsZero(direction) }

\* the size the window is resized to
RenderSizes == { size \in WindowSizes : size # window_get_size }

\* the ticks that add a point to the list a behaviour makes at most
MaxRenderCrossings == 2

\* run(): the window, the list and the scroll clock
InitRender == SliderIdle /\ HermiteIdle /\ UIIdle /\ InitWindow /\ InitCurve(0)

RenderTick(dt) ==
    /\ points_made < CURVE_POINTS + MaxRenderCrossings
    /\ Tick(dt)

NextRender ==
    \/ \E line_type \in 0..(NUM_LINE_TYPES - 1) : DrawLinesOf(line_type)
    \/ \E dt \in RenderSeconds : RenderTick(dt)
    \/ \E direction \in RenderDirections : SetCurveScrollDirection(direction)
    \/ OnRandomiseButtonPress
    \/ \E size \in RenderSizes : OnResize(size[1], size[2])

SpecRender == InitRender /\ [][NextRender]_vars

\* ------------------------------------------------- claims about the list and draw_lines

\* the list has exactly CURVE_POINTS points, and the last call of draw_lines
\* raised no IndexError and read no index above the last of the list
LengthAndIndexes ==
    /\ Len(curve_points) = CURVE_POINTS
    /\ draw_op.name = "draw_lines"
       => /\ ~draw_op.raised
          /\ \A k \in draw_op.read : k <= CURVE_SECTIONS /\ k <= Len(curve_points) - 1

\* a step that makes a point takes one point out of the list and puts the
\* new one in
PairedEviction ==
    points_made' # points_made
    => /\ Cardinality(PointsNotIn(curve_points', curve_points)) = 1
       /\ Cardinality(PointsNotIn(curve_points, curve_points')) = 1
       /\ \A i \in PointsNotIn(curve_points', curve_points) :
             curve_points'[i].id = points_made'

\* a step of on_randomise_button_press leaves every point in its place, with
\* its x
RandomiseKeepsPoints ==
    (points_made' = points_made /\ random_state' # random_state)
    => /\ Len(curve_points') = Len(curve_points)
       /\ \A i \in DOMAIN curve_points :
             /\ curve_points'[i].id = curve_points[i].id
             /\ curve_points'[i].x = curve_points[i].x

\* C21: from the end of create_curve on the list has exactly CURVE_POINTS
\* points in every state: a tick that adds a point at either end takes one
\* out at the other, and Randomise changes only the y of the points there
\* are; so i + 1 for i up to CURVE_SECTIONS - 1, the highest index
\* draw_lines reads, is an index of the list in every call
C21_ExactLength ==
    /\ []LengthAndIndexes
    /\ [][PairedEviction /\ RandomiseKeepsPoints]_vars

C21_Witness ==
    /\ draw_op.name = "draw_lines"
    /\ CURVE_SECTIONS \in draw_op.read
    /\ ~draw_op.raised
    /\ scroll_op.name = "on_randomise_button_press"
    /\ points_made = CURVE_POINTS + MaxRenderCrossings
    /\ FEq(current_step, FInt(CURVE_SECTION_SUBDIVISIONS))
    /\ curve_points[1].id = points_made
    /\ curve_points[2].id = 2
    /\ Len(curve_points) = CURVE_POINTS

====
